---- MODULE Spec2Model ----
(***************************************************************************)
(* AnySignals: the rate-limited request-shaping gateway.                   *)
(*                                                                         *)
(* The model follows the worker (src/unnamed/part_000, the BullMQ worker   *)
(* script), the queue helpers (src/lib/queue.js), the downstream client    *)
(* (src/lib/anysite-client.js), the callback dispatcher                    *)
(* (src/lib/callback.js), the tool registry (src/lib/tool-registry.js) and *)
(* the ingress handlers (src/server.js).                                   *)
(*                                                                         *)
(* Time is kept in milliseconds as remaining durations of the pending      *)
(* timers; AdvanceTime moves the clock to the next pending deadline.       *)
(***************************************************************************)
EXTENDS Integers, Sequences, FiniteSets, TLC

\* ------------------------------------------------------------------ bounds
\* jobs accepted by ingress over one behaviour
MaxJobs == 2
\* jobs accepted by ingress over one behaviour of SpecRate
MaxRateJobs == 1
\* jobs accepted by ingress over one behaviour of SpecOrder
MaxOrderJobs == 3
\* jobs accepted by ingress over one behaviour of SpecIngress
MaxIngressJobs == 2
\* HTTP requests answered over one behaviour of SpecIngress
MaxRequests == 2
\* jobs submitted to a worker that crashes and is restarted
MaxRecoverJobs == 2
\* jobs submitted while the worker is shut down
MaxShutdownJobs == 1
\* worker process crashes over one behaviour of SpecCrash
MaxCrashes == 1
\* jobs accepted by ingress over one behaviour of SpecStore
MaxStoreJobs == 2
\* batch submissions whose bulk enqueue may fail
MaxStoreErrors == 2
\* downstream requests older than this many milliseconds leave the request log
MaxWindow == 5000

\* ------------------------------------------------------- program constants
DRIP_INTERVAL_MS == 10000
JOB_ATTEMPTS == 3
JOB_BACKOFF_MS == 5000
CLIENT_MAX_RETRIES == 3
CLIENT_BASE_DELAY == 1000
CLIENT_MAX_DELAY == 30000
CLIENT_JITTER_PCT == 10
CALLBACK_MAX_RETRIES == 3
CALLBACK_BASE_DELAY == 1000
CALLBACK_MAX_DELAY == 30000
CALLBACK_JITTER_PCT == 20
LOCK_DURATION == 300000
KILL_TIMEOUT == 30000
DEFAULT_PRIORITY == 5
MAX_BATCH_SIZE == 2000
MIN_PRIORITY == 1
MAX_PRIORITY == 10

\* ------------------------------------------------------------ input sets
\* values a caller may give the parameter "user" ("absent": key not present)
ParamValues == {"absent", "v"}
\* JavaScript values a caller of validateParams may give a parameter:
\* undefined or no such key ("absent"), null, '', a non-empty string, the
\* number 0 ("zero") and false
JsValues == {"absent", "null", "", "v", "zero", "false"}

Min(a, b) == IF a <= b THEN a ELSE b
Max(a, b) == IF a >= b THEN a ELSE b
RECURSIVE Pow2(_)
Pow2(n) == IF n <= 0 THEN 1 ELSE 2 * Pow2(n - 1)
\* ceil(a / b) for a >= 0, b > 0
CeilDiv(a, b) == (a + b - 1) \div b
\* Math.round(a / b) for a >= 0, b > 0 (round half up)
RoundDiv(a, b) == (2 * a + b) \div (2 * b)

\* ---------------------------------------------------------- tool registry
\* TOOL_REGISTRY: the entry the model keeps of the static table
TOOL_REGISTRY ==
  [t \in {"get_linkedin_profile", "get_instagram_user_posts"} |->
     IF t = "get_linkedin_profile"
     THEN [endpoint |-> "/api/linkedin/profile", method |-> "POST",
           requiredParams |-> <<"user">>]
     ELSE [endpoint |-> "/api/instagram/user/posts", method |-> "POST",
           requiredParams |-> <<"user", "count">>]]

\* names every JavaScript object inherits from Object.prototype
InheritedNames == {"constructor"}

\* getTool: TOOL_REGISTRY[toolName] || null. An inherited property is found
\* by the lookup and is truthy, but it is no registry entry.
getTool(toolName) ==
  IF toolName \in DOMAIN TOOL_REGISTRY THEN [kind |-> "entry", name |-> toolName]
  ELSE IF toolName \in InheritedNames THEN [kind |-> "inherited", name |-> toolName]
  ELSE [kind |-> "null", name |-> toolName]

\* toolExists: toolName in TOOL_REGISTRY (the in operator sees inherited names)
toolExists(toolName) ==
  toolName \in DOMAIN TOOL_REGISTRY \/ toolName \in InheritedNames

\* listTools: Object.keys(TOOL_REGISTRY), own keys only
listTools == DOMAIN TOOL_REGISTRY

\* fault: a check of the value's truthiness (!params[param])
IsMissingFalsy(v) == v \in {"absent", "null", "", "zero", "false"}

\* params[param] === undefined || params[param] === null || params[param] === ''
IsMissing(v) == v \in {"absent", "null", ""}

\* the loop of validateParams: the required names whose value is missing, in
\* the order of requiredParams
missingParams(required, params) == SelectSeq(required, LAMBDA p : IsMissing(params[p]))

\* validateParams: "valid", "missing", or "throws" (requiredParams of an
\* inherited property is undefined and cannot be iterated)
validateParams(toolName, params) ==
  LET tool == getTool(toolName) IN
  IF tool.kind = "null" THEN "missing"
  ELSE IF tool.kind = "inherited" THEN "throws"
  ELSE IF missingParams(TOOL_REGISTRY[toolName].requiredParams, params) # <<>>
       THEN "missing"
       ELSE "valid"

\* what validateParams returns: { valid, missing }, with error for an unknown
\* tool; the for...of over the undefined requiredParams of an inherited
\* property throws
validateParamsReturn(toolName, params) ==
  LET tool == getTool(toolName) IN
  IF tool.kind = "null" THEN [valid |-> FALSE, missing |-> <<>>, error |-> "Unknown tool"]
  ELSE IF tool.kind = "inherited" THEN [valid |-> FALSE, missing |-> <<>>, error |-> "TypeError"]
  ELSE LET missing == missingParams(TOOL_REGISTRY[toolName].requiredParams, params)
       IN [valid |-> Len(missing) = 0, missing |-> missing, error |-> ""]

\* ------------------------------------------------------- HTTP outcomes
\* What axios reports for one request: the HTTP status (0: no response), the
\* error code and whether the error message holds the word "timeout".
Ok200 == [status |-> 200, code |-> "", timeoutText |-> FALSE]
NoError == [status |-> 0, code |-> "", timeoutText |-> FALSE]

\* isRetryableError (anysite-client.js)
isRetryableError(error) ==
  IF error.code \in {"ECONNREFUSED", "ECONNRESET", "ETIMEDOUT", "ENOTFOUND"} THEN TRUE
  ELSE IF error.code = "ECONNABORTED" \/ error.timeoutText THEN TRUE
  ELSE IF error.status = 429 THEN TRUE
  ELSE IF error.status >= 500 THEN TRUE
  ELSE IF error.status >= 400 /\ error.status < 500 THEN FALSE
  ELSE FALSE

\* isRetryableCallbackError (callback.js)
isRetryableCallbackError(error) ==
  IF error.code \in {"ECONNREFUSED", "ECONNRESET", "ETIMEDOUT", "ENOTFOUND", "ECONNABORTED"}
    THEN TRUE
  ELSE IF error.timeoutText THEN TRUE
  ELSE IF error.status = 429 THEN TRUE
  ELSE IF error.status >= 500 THEN TRUE
  ELSE IF error.status >= 400 /\ error.status < 500 THEN FALSE
  ELSE FALSE

\* getRetryDelay (anysite-client.js): min(base * 2^(attempt-1), max), plus a
\* jitter of delay * 0.1 * (Math.random() * 2 - 1), rounded; draw is the
\* random factor in percent.
getRetryDelay(attempt, draw) ==
  LET delay == Min(CLIENT_BASE_DELAY * Pow2(attempt - 1), CLIENT_MAX_DELAY)
  IN  RoundDiv(delay * (10000 + CLIENT_JITTER_PCT * draw), 10000)

\* calculateBackoff (callback.js): the same with a jitter of 20%
calculateBackoff(attempt, baseDelay, draw) ==
  LET delay == Min(baseDelay * Pow2(attempt - 1), CALLBACK_MAX_DELAY)
  IN  RoundDiv(delay * (10000 + CALLBACK_JITTER_PCT * draw), 10000)

\* the decision of the client's catch block: sleep and try again
clientShouldRetry(error, attempt) ==
  isRetryableError(error) /\ attempt < CLIENT_MAX_RETRIES

\* the decision of the dispatcher's catch block: sleep and try again
callbackShouldRetry(error, attempt) ==
  isRetryableCallbackError(error) /\ attempt < CALLBACK_MAX_RETRIES

\* fault: a fixed backoff
jobBackoffFixed(attemptsMade) == JOB_BACKOFF_MS

\* BullMQ's exponential backoff of defaultJobOptions: delay * 2^(attemptsMade-1)
jobBackoff(attemptsMade) == JOB_BACKOFF_MS * Pow2(attemptsMade - 1)

\* fault: a queue that grants one attempt more than attempts
jobWillRetryOnceMore(attemptsMade) == attemptsMade < JOB_ATTEMPTS + 1

\* fault: a queue whose jobs get one attempt fewer
jobWillRetryOnce(attemptsMade) == attemptsMade < JOB_ATTEMPTS - 1

\* defaultJobOptions.attempts: a failed execution is retried while
\* attemptsMade (already counting it) is below attempts
jobWillRetry(attemptsMade) == attemptsMade < JOB_ATTEMPTS

\* fault: a handler that takes every failed attempt for the final one
isFinalAttemptAlways(attemptsMade) == attemptsMade >= 1

\* handleJobFailure: isFinalAttempt = job.attemptsMade >= job.opts.attempts
isFinalAttempt(attemptsMade) == attemptsMade >= JOB_ATTEMPTS

\* ------------------------------------------------------------------ state
VARIABLES
  jobs,        \* the queue's jobs, by job id 1..Len(jobs)
  waitq,       \* ids of the waiting jobs, in the order they became waiting
  batches,     \* the batch hashes, by batch id 1..Len(batches)
  results,     \* the result records in the store, one per key
  ingress,     \* the POST /api/batch request being handled, if any
  wk,          \* the worker process: the processor's position in processJob
  limiterLeft, \* remaining life of the rate limiter's key
  fh,          \* per job: position of its handleJobFailure call
  cb,          \* per job: position of its sendCallback call
  reqAges,     \* ages of the downstream requests sent in the last MaxWindow ms
  obs,         \* per job: what has been observed of it (history)
  pace,        \* what has been observed of the execution starts (history)
  crashes,     \* worker crashes so far
  http,        \* the answer to the latest HTTP request to the ingress
  sd,          \* the worker's shutdown: signal received, kill timer, how it exited
  call         \* the latest direct call of an exported function and what it returned

vars == <<jobs, waitq, batches, results, ingress, wk, limiterLeft, fh, cb,
          reqAges, obs, pace, crashes, http, sd, call>>

JobIds == 1..Len(jobs)
InBatch(j) == jobs[j].batchId # 0

\* what the history keeps of a request body: the tool, the number of records
\* (1 for a single) and the priority after Joi's default
NoRequest == [tool |-> "", records |-> 0, priority |-> 0]
Request(tool, records, priority) ==
  [tool |-> tool, records |-> records, priority |-> priority]

\* res.status(...).json(...): the path asked for, the status answered, the
\* request it answers and the number of answers so far
NoResponse == [path |-> "none", status |-> 0, n |-> 0, req |-> NoRequest]
Response(path, status, req) ==
  [path |-> path, status |-> status, n |-> http.n + 1, req |-> req]

IdleWorker ==
  [alive |-> TRUE, pc |-> "idle", job |-> 0, attempt |-> 0, left |-> 0,
   lastError |-> NoError]

\* buildCallbackPayload: status, data on completed, error and attempts
\* (job.attemptsMade) on failed; a key the payload lacks is NoError or 0
NoPayload == [status |-> "none", data |-> "absent", error |-> NoError, attempts |-> 0]
buildCallbackPayload(attemptsMade, status, error) ==
  IF status = "completed"
  THEN [status |-> status, data |-> "response", error |-> NoError, attempts |-> 0]
  ELSE [status |-> status, data |-> "absent", error |-> error, attempts |-> attemptsMade]

NoCallback == [pc |-> "none", kind |-> "none", attempt |-> 0, left |-> 0,
               lastError |-> NoError, success |-> FALSE, attempts |-> 0,
               payload |-> NoPayload]

NoIngress == [pc |-> "none", batchId |-> 0, tool |-> "", records |-> <<>>,
              callbackUrl |-> FALSE, priority |-> 0]

\* what the history keeps of one job
NewObs ==
  [execs |-> 0,         \* executions of the job started by the worker
   writes |-> 0,        \* result records written for the job
   cbPosts |-> 0,       \* callback POSTs sent for the job
   cbCalls |-> 0,       \* callback deliveries (sendCallback calls) begun for the job
   cbAfterWrite |-> TRUE, \* every callback POST came after a result write
   incCompleted |-> 0,  \* increments of the batch's completed counter
   incFailed |-> 0,     \* increments of the batch's failed counter
   retried |-> 0]       \* times the job was parked for a job-level retry

\* what the history keeps of the execution starts
NoPace ==
  [startAge |-> -1,     \* time since the latest start, up to D + 1 (-1: none yet)
   running |-> 0,       \* executions started and not yet finished
   lastGap |-> -1,      \* startAge at the latest start (-1: it was the first)
   overlap |-> FALSE,   \* some execution started while another was running
   longEnded |-> FALSE, \* a run longer than D ended at this very instant
   afterLong |-> FALSE] \* the latest start came the instant a run longer than D ended

\* no exported function has been called directly
NoCall == [fn |-> "none", args |-> <<>>, ret |-> <<>>]

\* the worker process has received no signal
NoShutdown == [isShuttingDown |-> FALSE, killLeft |-> 0, job |-> 0, exit |-> "none"]

Init ==
  /\ jobs = <<>>
  /\ waitq = <<>>
  /\ batches = <<>>
  /\ results = {}
  /\ ingress = NoIngress
  /\ wk = IdleWorker
  /\ limiterLeft = 0
  /\ fh = <<>>
  /\ cb = <<>>
  /\ reqAges = <<>>
  /\ obs = <<>>
  /\ pace = NoPace
  /\ crashes = 0
  /\ http = NoResponse
  /\ sd = NoShutdown
  /\ call = NoCall

\* ---------------------------------------------------------------- ingress
ParamSets == [{"user"} -> ParamValues]

\* jobs ingress has accepted: enqueued, or about to be by the pending addBulk
Accepted == Len(jobs) + Len(ingress.records)

\* priority: Joi's default(5), and options.priority || 5 in addJob
priorityOf(given) == IF given = 0 THEN DEFAULT_PRIORITY ELSE given

\* row ids: the caller's (record.rowId, or rowId of a single), or generated:
\* `${batchId}_${index}` for a record, `single_${uuid}` for a single (the
\* model takes the job's number for the uuid)
NoRowId == "absent"
GivenRowId(name) == [kind |-> "given", name |-> name, batch |-> 0, index |-> 0]
BatchRowId(batchId, index) == [kind |-> "batch", name |-> "", batch |-> batchId, index |-> index]
SingleRowId(uuid) == [kind |-> "single", name |-> "", batch |-> 0, index |-> uuid]

\* record.rowId || `${batchId}_${index}` (index from 0)
recordRowId(record, batchId, index) ==
  IF "rowId" \in DOMAIN record /\ record["rowId"] \notin {NoRowId, ""}
  THEN GivenRowId(record["rowId"])
  ELSE BatchRowId(batchId, index)

\* rowId || `single_${uuidv4().split('-')[0]}`
singleRowId(rowId, uuid) ==
  IF rowId \notin {NoRowId, ""} THEN GivenRowId(rowId) ELSE SingleRowId(uuid)

NewJob(tool, params, rowId, callbackUrl, batchId, priority) ==
  [tool |-> tool, params |-> params, rowId |-> rowId, callbackUrl |-> callbackUrl,
   batchId |-> batchId, priority |-> priority, state |-> "waiting",
   attemptsMade |-> 0, left |-> 0, stalled |-> 0]

NoHandler == [pc |-> "none", error |-> NoError]

\* POST /api/single: schema and tool check, then addJob (queue.add)
SubmitSingle(limit, tool, params, rowId, callbackUrl, given) ==
  /\ Accepted < limit
  /\ toolExists(tool)
  /\ jobs' = Append(jobs, NewJob(tool, params, singleRowId(rowId, Len(jobs) + 1),
                                 callbackUrl, 0, priorityOf(given)))
  /\ waitq' = Append(waitq, Len(jobs) + 1)
  /\ fh' = Append(fh, NoHandler)
  /\ cb' = Append(cb, NoCallback)
  /\ obs' = Append(obs, NewObs)
  /\ UNCHANGED <<batches, results, ingress, wk, limiterLeft, reqAges, pace, crashes>>
  /\ UNCHANGED <<sd, call>>
  /\ http' = Response("/api/single", 202, Request(tool, 1, priorityOf(given)))

\* a field of the batch hash that the hash does not hold (hgetall leaves it
\* out); createdAt and tool are written with total and kept with it
Absent == -1

\* the batch hash when the key does not exist
NoBatchRecord == [total |-> Absent, completed |-> Absent, failed |-> Absent]

\* fault: an addBatch that enqueues the jobs without writing the batch hash
NewBatchRecordUnwritten(n) == NoBatchRecord

\* addBatch's hset: total = records.length, completed = 0, failed = 0
NewBatchRecord(n) == [total |-> n, completed |-> 0, failed |-> 0]

\* POST /api/batch up to addBatch's hset and expire: the batch hash is written
SubmitBatch(limit, tool, records, callbackUrl, given) ==
  /\ ingress.pc = "none"
  /\ Len(jobs) + Len(records) <= limit
  /\ toolExists(tool)
  /\ batches' = Append(batches, NewBatchRecord(Len(records)))
  /\ ingress' = [pc |-> "addBulk", batchId |-> Len(batches) + 1, tool |-> tool,
                 records |-> records, callbackUrl |-> callbackUrl,
                 priority |-> priorityOf(given)]
  /\ UNCHANGED <<jobs, waitq, results, wk, limiterLeft, fh, cb, reqAges, obs, pace, crashes>>
  /\ UNCHANGED <<http, sd, call>>

\* addBatch's queue.addBulk: one job per record, in the order of the records
EnqueueBatch ==
  /\ ingress.pc = "addBulk"
  /\ LET n == Len(ingress.records)
         base == Len(jobs)
     IN /\ jobs' = jobs \o [i \in 1..n |->
                      NewJob(ingress.tool, ingress.records[i],
                             recordRowId(ingress.records[i], ingress.batchId, i - 1),
                             ingress.callbackUrl, ingress.batchId, ingress.priority)]
        /\ waitq' = waitq \o [i \in 1..n |-> base + i]
        /\ fh' = fh \o [i \in 1..n |-> NoHandler]
        /\ cb' = cb \o [i \in 1..n |-> NoCallback]
        /\ obs' = obs \o [i \in 1..n |-> NewObs]
  /\ ingress' = NoIngress
  /\ UNCHANGED <<batches, results, wk, limiterLeft, reqAges, pace, crashes>>
  /\ UNCHANGED <<sd, call>>
  /\ http' = Response("/api/batch", 202,
                      Request(ingress.tool, Len(ingress.records), ingress.priority))

\* addBatch's queue.addBulk rejects (a store error): addBatch throws, the
\* route's catch answers 500, and nothing deletes the hash written before
EnqueueBatchFails ==
  /\ ingress.pc = "addBulk"
  /\ ingress.batchId <= MaxStoreErrors
  /\ ingress' = NoIngress
  /\ http' = Response("/api/batch", 500,
                      Request(ingress.tool, Len(ingress.records), ingress.priority))
  /\ UNCHANGED <<jobs, waitq, batches, results, wk, limiterLeft, fh, cb, reqAges, obs,
                 pace, crashes, sd, call>>

\* redis expires the batch hash 48 hours after addBatch's expire. The model
\* does not count the 48 hours: the key may expire while a job of the batch
\* still waits for its execution, as behind a backlog of more than 17280 jobs
\* (one job per DRIP_INTERVAL_MS) or a worker outage. A hash recreated by
\* hincrby carries no TTL and does not expire.
ExpireBatch(b) ==
  /\ b \in 1..Len(batches)
  /\ batches[b].total # Absent
  /\ \E j \in JobIds : jobs[j].batchId = b /\ jobs[j].state \in {"waiting", "delayed"}
  /\ batches' = [batches EXCEPT ![b] = NoBatchRecord]
  /\ UNCHANGED <<jobs, waitq, results, ingress, wk, limiterLeft, fh, cb, reqAges, obs,
                 pace, crashes, http, sd, call>>

\* the URLs the model asks for, and req.path as a middleware mounted at /api
\* sees them: the mount point is stripped
MountRelative ==
  [u \in {"/api/health", "/api/batch", "/api/single", "/api/api/health"} |->
     CASE u = "/api/health" -> "/health"
       [] u = "/api/batch" -> "/batch"
       [] u = "/api/single" -> "/single"
       [] u = "/api/api/health" -> "/api/health"]

\* authenticateRequest, mounted with app.use('/api', ...): 0 stands for next();
\* secret "" is an unset WEBHOOK_SECRET, header "absent" a missing header
authenticateRequest(path, secret, header) ==
  IF path = "/api/health" THEN 0
  ELSE IF secret = "" THEN 0
  ELSE IF header \in {"absent", ""} THEN 401
  ELSE IF header # secret THEN 403
  ELSE 0

\* batchSchema: records min(1).max(MAX_BATCH_SIZE), priority 1..10 or absent
batchSchemaValid(records, given) ==
  /\ Len(records) >= 1 /\ Len(records) <= MAX_BATCH_SIZE
  /\ given = 0 \/ (given >= MIN_PRIORITY /\ given <= MAX_PRIORITY)

\* singleSchema: priority 1..10 or absent (params is always an object here)
singleSchemaValid(given) ==
  given = 0 \/ (given >= MIN_PRIORITY /\ given <= MAX_PRIORITY)

\* the answer of a handler that changes nothing in the store
Answer(path, status, req) ==
  /\ http' = Response(path, status, req)
  /\ UNCHANGED <<jobs, waitq, batches, results, ingress, wk, limiterLeft, fh, cb, reqAges,
                 obs, pace, crashes, sd, call>>

\* GET /api/health behind the middleware
HttpHealth(secret, header, redisConnected) ==
  /\ http.n < MaxRequests
  /\ LET auth == authenticateRequest(MountRelative["/api/health"], secret, header) IN
     IF auth # 0 THEN Answer("/api/health", auth, NoRequest)
     ELSE Answer("/api/health", IF redisConnected THEN 200 ELSE 503, NoRequest)

\* a URL under /api without a route: the middleware, then Express's 404
HttpUnrouted(url, secret, header) ==
  /\ http.n < MaxRequests
  /\ LET auth == authenticateRequest(MountRelative[url], secret, header) IN
     Answer(url, IF auth # 0 THEN auth ELSE 404, NoRequest)

\* POST /api/single behind the middleware
HttpSingle(secret, header, limit, tool, params, rowId, callbackUrl, given) ==
  /\ http.n < MaxRequests
  /\ LET auth == authenticateRequest(MountRelative["/api/single"], secret, header)
         req == Request(tool, 1, priorityOf(given))
     IN IF auth # 0 THEN Answer("/api/single", auth, req)
        ELSE IF ~singleSchemaValid(given) THEN Answer("/api/single", 400, req)
        ELSE IF ~toolExists(tool) THEN Answer("/api/single", 400, req)
        ELSE SubmitSingle(limit, tool, params, rowId, callbackUrl, given)

\* POST /api/batch behind the middleware, up to addBatch's hset and expire
HttpBatch(secret, header, limit, tool, records, callbackUrl, given) ==
  /\ http.n < MaxRequests
  /\ LET auth == authenticateRequest(MountRelative["/api/batch"], secret, header)
         req == Request(tool, Len(records), priorityOf(given))
     IN IF auth # 0 THEN Answer("/api/batch", auth, req)
        ELSE IF ~batchSchemaValid(records, given) THEN Answer("/api/batch", 400, req)
        ELSE IF ~toolExists(tool) THEN Answer("/api/batch", 400, req)
        ELSE SubmitBatch(limit, tool, records, callbackUrl, given)

\* ----------------------------------------------------------------- worker
\* fault: a worker built without the limiter option
RateLimitedNever == FALSE

\* the limiter of the worker options: max 1 job per DRIP_INTERVAL_MS
RateLimited == limiterLeft > 0
limiterDuration == DRIP_INTERVAL_MS

\* fault: a worker that fetches the next job while it processes one
WorkerFreeWhileBusy == wk.alive

\* concurrency 1: the worker fetches a job only when it processes none
WorkerFree == wk.alive /\ wk.pc = "idle"

\* fault: a queue that ignores the priorities
NextJobFifo == waitq[1]

\* fault: a queue that hands out the newest job of the best priority
NextJobNewest ==
  CHOOSE j \in {waitq[i] : i \in 1..Len(waitq)} :
    \E i \in 1..Len(waitq) :
      /\ waitq[i] = j
      /\ \A k \in 1..Len(waitq) :
           \/ jobs[waitq[k]].priority > jobs[j].priority
           \/ (jobs[waitq[k]].priority = jobs[j].priority /\ k <= i)

\* the waiting job BullMQ hands out: lowest priority number, then first in
NextJob ==
  CHOOSE j \in {waitq[i] : i \in 1..Len(waitq)} :
    \E i \in 1..Len(waitq) :
      /\ waitq[i] = j
      /\ \A k \in 1..Len(waitq) :
           \/ jobs[waitq[k]].priority > jobs[j].priority
           \/ (jobs[waitq[k]].priority = jobs[j].priority /\ k >= i)

Without(q, j) == SelectSeq(q, LAMBDA x : x # j)

\* a closing worker (worker.close()) fetches no further job
CanClaim == WorkerFree /\ ~sd.isShuttingDown /\ waitq # <<>> /\ ~RateLimited

\* the worker takes the next job (moveToActive) and calls the processor
Claim ==
  /\ CanClaim
  /\ LET j == NextJob IN
     /\ jobs' = [jobs EXCEPT ![j].state = "active"]
     /\ waitq' = Without(waitq, j)
     /\ wk' = [wk EXCEPT !.pc = "start", !.job = j, !.attempt = 0,
                         !.left = 0, !.lastError = NoError]
     /\ obs' = [obs EXCEPT ![j].execs = @ + 1]
  /\ limiterLeft' = limiterDuration
  /\ pace' = [startAge |-> 0,
              running |-> pace.running + 1,
              lastGap |-> pace.startAge,
              overlap |-> pace.overlap \/ pace.running > 0,
              longEnded |-> FALSE,
              afterLong |-> pace.longEnded]
  /\ UNCHANGED <<batches, results, ingress, fh, cb, reqAges, crashes>>
  /\ UNCHANGED <<http, sd, call>>

\* the error a throw inside processJob carries (no HTTP response, no code)
PlainError == [status |-> 0, code |-> "Error", timeoutText |-> FALSE]

\* anysiteClient.request sends one request: apiClient.request(...)
SendRequest(attempt, d) ==
  /\ wk' = [wk EXCEPT !.pc = "request", !.attempt = attempt, !.left = d]
  /\ reqAges' = Append(reqAges, 0)

\* processJob up to the first await: registry lookup, validation, first request
StartProcessing(d) ==
  /\ wk.alive /\ wk.pc = "start"
  /\ LET job == jobs[wk.job] IN
     IF getTool(job.tool).kind = "null" \/ validateParams(job.tool, job.params) # "valid"
     THEN /\ wk' = [wk EXCEPT !.pc = "throw", !.lastError = PlainError]
          /\ UNCHANGED reqAges
     ELSE SendRequest(1, d)
  /\ UNCHANGED <<jobs, waitq, batches, results, ingress, limiterLeft, fh, cb, obs, pace, crashes>>
  /\ UNCHANGED <<http, sd, call>>

\* the for loop of request goes on to its next round (attempt++ <= maxRetries)
clientLoopContinues(attempt) == attempt + 1 <= CLIENT_MAX_RETRIES

\* fault: a client without a retry loop, every failure is thrown at once
ClientResponseNoRetry(outcome, d, draw) ==
  /\ wk.alive /\ wk.pc = "request" /\ wk.left = 0
  /\ wk' = IF outcome = Ok200 THEN [wk EXCEPT !.pc = "store"]
           ELSE [wk EXCEPT !.pc = "throw", !.lastError = outcome]
  /\ UNCHANGED <<jobs, waitq, batches, results, ingress, limiterLeft, fh, cb, reqAges, obs,
                 pace, crashes>>
  /\ UNCHANGED <<http, sd, call>>

\* the downstream API answers (or the connection fails): the try and the catch
\* block of request's loop, up to the next await
ClientResponse(outcome, d, draw) ==
  /\ wk.alive /\ wk.pc = "request" /\ wk.left = 0
  /\ IF outcome = Ok200
     THEN /\ wk' = [wk EXCEPT !.pc = "store"]
          /\ UNCHANGED reqAges
     ELSE IF clientShouldRetry(outcome, wk.attempt)
     THEN /\ wk' = [wk EXCEPT !.pc = "sleep", !.lastError = outcome,
                             !.left = getRetryDelay(wk.attempt, draw)]
          /\ UNCHANGED reqAges
     ELSE IF clientLoopContinues(wk.attempt)
     THEN /\ wk' = [wk EXCEPT !.pc = "request", !.attempt = wk.attempt + 1,
                             !.left = d, !.lastError = outcome]
          /\ reqAges' = Append(reqAges, 0)
     ELSE /\ wk' = [wk EXCEPT !.pc = "throw", !.lastError = outcome]
          /\ UNCHANGED reqAges
  /\ UNCHANGED <<jobs, waitq, batches, results, ingress, limiterLeft, fh, cb, obs, pace,
                 crashes>>
  /\ UNCHANGED <<http, sd, call>>

\* the client's sleep(delay) is over: the next round of the loop sends again
ClientSleepDone(d) ==
  /\ wk.alive /\ wk.pc = "sleep" /\ wk.left = 0
  /\ SendRequest(wk.attempt + 1, d)
  /\ UNCHANGED <<jobs, waitq, batches, results, ingress, limiterLeft, fh, cb, obs, pace, crashes>>
  /\ UNCHANGED <<http, sd, call>>

\* the processor's promise settles: the execution is over
Finished == [pace EXCEPT !.running = @ - 1,
                         !.longEnded = pace.startAge > DRIP_INTERVAL_MS]

\* storeResult: setex under the key of the job and its batch
ResultKey(j) == <<j, jobs[j].batchId>>
storeResult(j, record) ==
  {r \in results : r.key # ResultKey(j)} \cup {[key |-> ResultKey(j)] @@ record}

\* the record processJob stores: jobId, rowId, tool, data, completedAt
CompletedRecord == [status |-> "absent", data |-> "response", error |-> NoError]
\* the record handleJobFailure stores: jobId, rowId, tool, status, error, failedAt
FailedRecord(error) == [status |-> "failed", data |-> "absent", error |-> error]

\* redis hincrby by 1: a field the hash lacks counts from 0, and the hash is
\* created when the key does not exist
hincrby(v) == IF v = Absent THEN 1 ELSE v + 1

\* fault: a progress update that counts the completed jobs only
updateBatchProgressCompletedOnly(batchId, field) ==
  IF batchId = 0 \/ field # "completed" THEN batches
  ELSE [batches EXCEPT ![batchId].completed = hincrby(@)]

\* updateBatchProgress: hincrby 1 on the batch hash (nothing without a batch id)
updateBatchProgress(batchId, field) ==
  IF batchId = 0 THEN batches
  ELSE IF field = "completed"
       THEN [batches EXCEPT ![batchId].completed = hincrby(@)]
       ELSE [batches EXCEPT ![batchId].failed = hincrby(@)]

\* sendCallback sends one POST: axios.post(callbackUrl, payload, ...)
PostCallback(j, kind, attempt, d) ==
  [pc |-> "send", kind |-> kind, attempt |-> attempt, left |-> d,
   lastError |-> cb[j].lastError, success |-> FALSE, attempts |-> 0,
   payload |-> cb[j].payload]

\* sendCompletedCallback, sendFailedCallback: the payload is built and
\* sendCallback sends its first POST
FirstPost(j, kind, error, d) ==
  [PostCallback(j, kind, 1, d) EXCEPT
     !.payload = buildCallbackPayload(jobs[j].attemptsMade, kind, error)]

ObserveCall(j, o) == [o EXCEPT !.cbCalls = @ + 1]

ObservePost(j, o) ==
  [o EXCEPT !.cbPosts = @ + 1, !.cbAfterWrite = @ /\ obs[j].writes >= 1]

\* processJob step 4: the result record is written
StoreCompleted ==
  /\ wk.alive /\ wk.pc = "store"
  /\ results' = storeResult(wk.job, CompletedRecord)
  /\ obs' = [obs EXCEPT ![wk.job].writes = @ + 1]
  /\ wk' = [wk EXCEPT !.pc = "batch"]
  /\ UNCHANGED <<jobs, waitq, batches, ingress, limiterLeft, fh, cb, reqAges, pace, crashes>>
  /\ UNCHANGED <<http, sd, call>>

\* processJob step 5: the batch's completed counter, if the job has a batch
CountCompleted ==
  /\ wk.alive /\ wk.pc = "batch"
  /\ batches' = updateBatchProgress(jobs[wk.job].batchId, "completed")
  /\ obs' = [obs EXCEPT ![wk.job].incCompleted =
                 IF jobs[wk.job].batchId # 0 THEN @ + 1 ELSE @]
  /\ wk' = [wk EXCEPT !.pc = "callback"]
  /\ UNCHANGED <<jobs, waitq, results, ingress, limiterLeft, fh, cb, reqAges, pace, crashes>>
  /\ UNCHANGED <<http, sd, call>>

\* fault: a processJob that starts the completed callback without awaiting it
CallbackCompletedDetached(d) ==
  /\ wk.alive /\ wk.pc = "callback"
  /\ IF jobs[wk.job].callbackUrl
     THEN /\ cb' = [cb EXCEPT ![wk.job] = FirstPost(wk.job, "completed", NoError, d)]
          /\ obs' = [obs EXCEPT ![wk.job] = ObserveCall(wk.job, ObservePost(wk.job, @))]
     ELSE UNCHANGED <<cb, obs>>
  /\ wk' = [wk EXCEPT !.pc = "return"]
  /\ UNCHANGED <<jobs, waitq, batches, results, ingress, limiterLeft, fh, reqAges, pace, crashes>>
  /\ UNCHANGED <<http, sd, call>>

\* processJob step 6: sendCompletedCallback, if the job has a callback URL
CallbackCompleted(d) ==
  /\ wk.alive /\ wk.pc = "callback"
  /\ IF jobs[wk.job].callbackUrl
     THEN /\ cb' = [cb EXCEPT ![wk.job] = FirstPost(wk.job, "completed", NoError, d)]
          /\ obs' = [obs EXCEPT ![wk.job] = ObserveCall(wk.job, ObservePost(wk.job, @))]
          /\ wk' = [wk EXCEPT !.pc = "awaitCallback"]
     ELSE /\ wk' = [wk EXCEPT !.pc = "return"]
          /\ UNCHANGED <<cb, obs>>
  /\ UNCHANGED <<jobs, waitq, batches, results, ingress, limiterLeft, fh, reqAges, pace, crashes>>
  /\ UNCHANGED <<http, sd, call>>

\* processJob returns the response: BullMQ moves the job to completed
Complete ==
  /\ wk.alive /\ wk.pc = "return"
  /\ jobs' = [jobs EXCEPT ![wk.job].state = "completed"]
  /\ wk' = IdleWorker
  /\ pace' = Finished
  /\ UNCHANGED <<waitq, batches, results, ingress, limiterLeft, fh, cb, reqAges, obs, crashes>>
  /\ UNCHANGED <<http, sd, call>>

\* an HTTP 4xx answer other than 429
ClientError4xx(error) ==
  error.status >= 400 /\ error.status < 500 /\ error.status # 429

\* fault: a worker process that exits when a job fails
FailCrashing ==
  /\ wk.alive /\ wk.pc = "throw"
  /\ LET j == wk.job
         made == jobs[j].attemptsMade + 1
     IN /\ jobs' = [jobs EXCEPT ![j].attemptsMade = made,
                                ![j].state = IF jobWillRetry(made) THEN "delayed" ELSE "failed",
                                ![j].left = IF jobWillRetry(made) THEN jobBackoff(made) ELSE 0]
        /\ obs' = [obs EXCEPT ![j].retried = IF jobWillRetry(made) THEN @ + 1 ELSE @]
  /\ wk' = [IdleWorker EXCEPT !.alive = FALSE, !.pc = "dead"]
  /\ pace' = Finished
  /\ UNCHANGED <<waitq, batches, results, ingress, limiterLeft, fh, cb, reqAges, crashes>>
  /\ UNCHANGED <<http, sd, call>>

\* processJob threw: BullMQ counts the attempt and either parks the job for
\* its backoff or moves it to failed; the failed event calls handleJobFailure,
\* which goes on to its first await only on the final attempt
Fail ==
  /\ wk.alive /\ wk.pc = "throw"
  /\ LET j == wk.job
         made == jobs[j].attemptsMade + 1
     IN /\ jobs' = [jobs EXCEPT ![j].attemptsMade = made,
                                ![j].state = IF jobWillRetry(made) THEN "delayed" ELSE "failed",
                                ![j].left = IF jobWillRetry(made) THEN jobBackoff(made) ELSE 0]
        /\ obs' = [obs EXCEPT ![j].retried = IF jobWillRetry(made) THEN @ + 1 ELSE @]
        /\ fh' = [fh EXCEPT ![j] = IF isFinalAttempt(made)
                                   THEN [pc |-> "batch", error |-> wk.lastError]
                                   ELSE @]
  /\ wk' = IdleWorker
  /\ pace' = Finished
  /\ UNCHANGED <<waitq, batches, results, ingress, limiterLeft, cb, reqAges, crashes>>
  /\ UNCHANGED <<http, sd, call>>

\* the backoff of a parked job is over: it waits again
Promote(j) ==
  /\ jobs[j].state = "delayed" /\ jobs[j].left = 0
  /\ jobs' = [jobs EXCEPT ![j].state = "waiting"]
  /\ waitq' = Append(waitq, j)
  /\ UNCHANGED <<batches, results, ingress, wk, limiterLeft, fh, cb, reqAges, obs, pace, crashes>>
  /\ UNCHANGED <<http, sd, call>>

\* handleJobFailure, final attempt: the batch's failed counter
CountFailed(j) ==
  /\ wk.alive /\ fh[j].pc = "batch"
  /\ batches' = updateBatchProgress(jobs[j].batchId, "failed")
  /\ obs' = [obs EXCEPT ![j].incFailed = IF jobs[j].batchId # 0 THEN @ + 1 ELSE @]
  /\ fh' = [fh EXCEPT ![j].pc = "store"]
  /\ UNCHANGED <<jobs, waitq, results, ingress, wk, limiterLeft, cb, reqAges, pace, crashes>>
  /\ UNCHANGED <<http, sd, call>>

\* handleJobFailure, final attempt: the failure record is written
StoreFailed(j) ==
  /\ wk.alive /\ fh[j].pc = "store"
  /\ results' = storeResult(j, FailedRecord(fh[j].error))
  /\ obs' = [obs EXCEPT ![j].writes = @ + 1]
  /\ fh' = [fh EXCEPT ![j].pc = "callback"]
  /\ UNCHANGED <<jobs, waitq, batches, ingress, wk, limiterLeft, cb, reqAges, pace, crashes>>
  /\ UNCHANGED <<http, sd, call>>

\* handleJobFailure, final attempt: sendFailedCallback, if there is a URL
CallbackFailed(j, d) ==
  /\ wk.alive /\ fh[j].pc = "callback"
  /\ IF jobs[j].callbackUrl
     THEN /\ cb' = [cb EXCEPT ![j] = FirstPost(j, "failed", fh[j].error, d)]
          /\ obs' = [obs EXCEPT ![j] = ObserveCall(j, ObservePost(j, @))]
          /\ fh' = [fh EXCEPT ![j].pc = "awaitCallback"]
     ELSE /\ fh' = [fh EXCEPT ![j].pc = "done"]
          /\ UNCHANGED <<cb, obs>>
  /\ UNCHANGED <<jobs, waitq, batches, results, ingress, wk, limiterLeft, reqAges, pace, crashes>>
  /\ UNCHANGED <<http, sd, call>>

\* fault: a loop that is left at the first error it does not retry
callbackLoopBreaks(attempt) == FALSE

\* the for loop of sendCallback goes on to its next round
callbackLoopContinues(attempt) == attempt + 1 <= CALLBACK_MAX_RETRIES

\* fault: a processJob that throws when the delivery failed
CallbackReturnedThrowing(j, kind, success) ==
  IF kind = "completed"
  THEN /\ wk' = [wk EXCEPT !.pc = IF success THEN "return" ELSE "throw"]
       /\ UNCHANGED fh
  ELSE /\ fh' = [fh EXCEPT ![j].pc = "done"]
       /\ UNCHANGED wk

\* sendCallback has returned to its caller: processJob logs a failed delivery
\* and goes on to its return, handleJobFailure ends
CallbackReturned(j, kind, success) ==
  IF kind = "completed"
  THEN /\ wk' = [wk EXCEPT !.pc = "return"]
       /\ UNCHANGED fh
  ELSE /\ fh' = [fh EXCEPT ![j].pc = "done"]
       /\ UNCHANGED wk

\* what sendCallback returns: { success, attempts }
CallbackResult(kind, success, attempts) ==
  [NoCallback EXCEPT !.pc = "done", !.kind = kind, !.success = success,
                     !.attempts = attempts]

\* the callback receiver answers (or the connection fails): the try and the
\* catch block of sendCallback's loop, up to the next await
CallbackResponse(j, outcome, d, draw) ==
  /\ wk.alive /\ cb[j].pc = "send" /\ cb[j].left = 0
  /\ IF outcome = Ok200
     THEN /\ cb' = [cb EXCEPT ![j] = CallbackResult(cb[j].kind, TRUE, cb[j].attempt)]
          /\ CallbackReturned(j, cb[j].kind, TRUE)
          /\ UNCHANGED obs
     ELSE IF callbackShouldRetry(outcome, cb[j].attempt)
     THEN /\ cb' = [cb EXCEPT ![j].pc = "sleep", ![j].lastError = outcome,
                        ![j].left = calculateBackoff(cb[j].attempt, CALLBACK_BASE_DELAY, draw)]
          /\ UNCHANGED <<wk, fh, obs>>
     ELSE IF callbackLoopContinues(cb[j].attempt)
     THEN /\ cb' = [cb EXCEPT ![j] = [PostCallback(j, cb[j].kind, cb[j].attempt + 1, d)
                                        EXCEPT !.lastError = outcome]]
          /\ obs' = [obs EXCEPT ![j] = ObservePost(j, @)]
          /\ UNCHANGED <<wk, fh>>
     ELSE /\ cb' = [cb EXCEPT ![j] = CallbackResult(cb[j].kind, FALSE, CALLBACK_MAX_RETRIES)]
          /\ CallbackReturned(j, cb[j].kind, FALSE)
          /\ UNCHANGED obs
  /\ UNCHANGED <<jobs, waitq, batches, results, ingress, limiterLeft, reqAges, pace, crashes>>
  /\ UNCHANGED <<http, sd, call>>

\* the dispatcher's sleep(delay) is over: the next round of the loop posts again
CallbackSleepDone(j, d) ==
  /\ wk.alive /\ cb[j].pc = "sleep" /\ cb[j].left = 0
  /\ cb' = [cb EXCEPT ![j] = PostCallback(j, cb[j].kind, cb[j].attempt + 1, d)]
  /\ obs' = [obs EXCEPT ![j] = ObservePost(j, @)]
  /\ UNCHANGED <<jobs, waitq, batches, results, ingress, wk, limiterLeft, fh, reqAges,
                 pace, crashes>>
  /\ UNCHANGED <<http, sd, call>>

\* what getBatchStatus answers for a key without any field
NotFound == [found |-> FALSE, total |-> Absent, completed |-> Absent,
             failed |-> Absent, createdAt |-> FALSE, tool |-> FALSE]

\* getBatchStatus: hgetall, null when the hash has no field, else the parsed
\* counters (parseInt of a missing field is NaN, kept here as Absent) and the
\* createdAt and tool fields as the hash holds them
getBatchStatus(batchId) ==
  IF batchId \notin 1..Len(batches) \/ batches[batchId] = NoBatchRecord
  THEN NotFound
  ELSE [found |-> TRUE, total |-> batches[batchId].total,
        completed |-> batches[batchId].completed,
        failed |-> batches[batchId].failed,
        createdAt |-> batches[batchId].total # Absent,
        tool |-> batches[batchId].total # Absent]

\* ----------------------------------------------------------- status reads
\* getBatchResults: the keys matching anysignals:result:*:<batchId>, the
\* first limit of them in the order KEYS gives (any order), and the records
\* under them; the operator gives every list the call may return, as a set
ResultsOf(batchId) == {r \in results : r.key[2] = batchId}
getBatchResults(batchId, limit) ==
  {S \in SUBSET ResultsOf(batchId) :
     Cardinality(S) = Min(limit, Cardinality(ResultsOf(batchId)))}

\* ----------------------------------------------------------- direct calls
\* The exported functions, called with given arguments; what a call returns
\* is kept in the variable call.
AllUnchanged ==
  UNCHANGED <<jobs, waitq, batches, results, ingress, wk, limiterLeft, fh, cb, reqAges,
              obs, pace, crashes, http, sd>>

CallValidateParams(toolName, params) ==
  /\ call' = [fn |-> "validateParams", args |-> <<toolName, params>>,
              ret |-> validateParamsReturn(toolName, params)]
  /\ AllUnchanged

\* sendCallback as a function of the answers the receiver gives to the POSTs:
\* the loop returns at the first 2xx answer and gives up after maxRetries
\* attempts; posts counts the requests sent
RECURSIVE sendCallbackFrom(_, _)
sendCallbackFrom(attempt, outs) ==
  IF attempt > CALLBACK_MAX_RETRIES
  THEN [success |-> FALSE, attempts |-> CALLBACK_MAX_RETRIES, skipped |-> FALSE,
        posts |-> CALLBACK_MAX_RETRIES]
  ELSE IF outs[attempt] = Ok200
  THEN [success |-> TRUE, attempts |-> attempt, skipped |-> FALSE, posts |-> attempt]
  ELSE sendCallbackFrom(attempt + 1, outs)

sendCallback(outs) == sendCallbackFrom(1, outs)

\* fault: a dispatch that posts whether or not the job has a callbackUrl
sendCompletedCallbackAlways(callbackUrl, outs) == sendCallback(outs)

\* sendCompletedCallback: nothing is sent for a job without callbackUrl
sendCompletedCallback(callbackUrl, outs) ==
  IF ~callbackUrl
  THEN [success |-> TRUE, attempts |-> 0, skipped |-> TRUE, posts |-> 0]
  ELSE sendCallback(outs)

\* sendFailedCallback: the same for a failed job
sendFailedCallback(callbackUrl, outs) ==
  IF ~callbackUrl
  THEN [success |-> TRUE, attempts |-> 0, skipped |-> TRUE, posts |-> 0]
  ELSE sendCallback(outs)

\* an answer of the downstream API to a direct call of the client: the HTTP
\* status (0: no response came) and what the body says (the data of a 2xx
\* answer, the message of an error answer)
Answer2xx(a) == a.status >= 200 /\ a.status < 300
NoAnswer == [status |-> 0, body |-> ""]

\* getErrorMessage: the upstream message, or else the message of the error
getErrorMessage(error) == IF error.body # "" THEN error.body ELSE "error.message"

\* fault: an error that leaves out the HTTP status
formatErrorNoStatus(error, endpoint) ==
  [endpoint |-> endpoint, status |-> 0, message |-> getErrorMessage(error)]

\* formatError: message (after 'AnySite API error: '), endpoint and status
\* (undefined, here 0, when no response came)
formatError(error, endpoint) ==
  [endpoint |-> endpoint, status |-> error.status, message |-> getErrorMessage(error)]

\* request as a function of the answers the API gives: every round of the
\* loop sends; a 2xx answer returns response.data; an error is kept as
\* lastError and the loop goes on (after a sleep when it is retryable);
\* after maxRetries rounds formatError(lastError, endpoint) is thrown; sent
\* counts the requests
RECURSIVE requestFrom(_, _, _, _)
requestFrom(attempt, endpoint, outs, lastError) ==
  IF attempt > CLIENT_MAX_RETRIES
  THEN [ok |-> FALSE, data |-> "", sent |-> CLIENT_MAX_RETRIES,
        error |-> formatError(lastError, endpoint)]
  ELSE IF Answer2xx(outs[attempt])
  THEN [ok |-> TRUE, data |-> outs[attempt].body, sent |-> attempt,
        error |-> formatError(NoAnswer, "")]
  ELSE requestFrom(attempt + 1, endpoint, outs, outs[attempt])

request(endpoint, outs) == requestFrom(1, endpoint, outs, NoAnswer)

CallRequest(endpoint, outs) ==
  /\ call' = [fn |-> "request", args |-> <<endpoint, outs>>, ret |-> request(endpoint, outs)]
  /\ AllUnchanged

CallSendCompletedCallback(callbackUrl, outs) ==
  /\ call' = [fn |-> "sendCompletedCallback", args |-> <<callbackUrl, outs>>,
              ret |-> sendCompletedCallback(callbackUrl, outs)]
  /\ AllUnchanged

CallSendFailedCallback(callbackUrl, outs) ==
  /\ call' = [fn |-> "sendFailedCallback", args |-> <<callbackUrl, outs>>,
              ret |-> sendFailedCallback(callbackUrl, outs)]
  /\ AllUnchanged

\* ------------------------------------------------------------------ crash
\* an active job whose worker is gone: nobody renews its lock
Orphan(j) == jobs[j].state = "active" /\ ~(wk.alive /\ wk.job = j)

\* the worker process dies: the processor, the running handlers and their
\* callbacks die with it; the lock of the active job runs out after lockLeft
Crash(lockLeft) ==
  /\ wk.alive
  /\ crashes < MaxCrashes
  /\ wk.job # 0 => jobs[wk.job].stalled = 0
  /\ crashes' = crashes + 1
  /\ wk' = [IdleWorker EXCEPT !.alive = FALSE, !.pc = "dead"]
  /\ jobs' = [j \in JobIds |->
                IF j = wk.job THEN [jobs[j] EXCEPT !.left = lockLeft] ELSE jobs[j]]
  /\ fh' = [j \in JobIds |->
              IF fh[j].pc \in {"none", "done"} THEN fh[j] ELSE [fh[j] EXCEPT !.pc = "lost"]]
  /\ cb' = [j \in JobIds |->
              IF cb[j].pc \in {"none", "done"} THEN cb[j]
              ELSE [NoCallback EXCEPT !.pc = "lost", !.kind = cb[j].kind]]
  /\ pace' = [pace EXCEPT !.running = 0]
  /\ UNCHANGED <<waitq, batches, results, ingress, limiterLeft, reqAges, obs>>
  /\ UNCHANGED <<http, sd, call>>

\* the process manager starts the worker again (autorestart)
Restart ==
  /\ ~wk.alive
  /\ wk' = IdleWorker
  /\ sd' = NoShutdown
  /\ UNCHANGED <<jobs, waitq, batches, results, ingress, limiterLeft, fh, cb, reqAges,
                 obs, pace, crashes>>
  /\ UNCHANGED <<http, call>>

\* fault: a stalled-jobs check that takes the lock off the job without
\* putting the job back to wait
RecoverLosing(j) ==
  /\ wk.alive
  /\ Orphan(j) /\ jobs[j].left = 0
  /\ jobs' = [jobs EXCEPT ![j].state = "waiting", ![j].stalled = @ + 1]
  /\ UNCHANGED <<waitq, batches, results, ingress, wk, limiterLeft, fh, cb, reqAges, obs,
                 pace, crashes, http, sd, call>>

\* fault: a stalled-jobs check that puts back to wait any job the worker
\* does not hold, finished jobs included
RecoverAny(j) ==
  /\ wk.alive /\ wk.job # j
  /\ jobs[j].state \in {"active", "completed", "failed"} /\ jobs[j].left = 0
  /\ jobs' = [jobs EXCEPT ![j].state = "waiting", ![j].stalled = @ + 1]
  /\ waitq' = Append(waitq, j)
  /\ UNCHANGED <<batches, results, ingress, wk, limiterLeft, fh, cb, reqAges, obs, pace,
                 crashes, http, sd, call>>

\* the stalled-jobs check of the running worker finds the lock of an active
\* job expired and puts the job back to waiting
Recover(j) ==
  /\ wk.alive
  /\ Orphan(j) /\ jobs[j].left = 0
  /\ jobs' = [jobs EXCEPT ![j].state = "waiting", ![j].stalled = @ + 1]
  /\ waitq' = Append(waitq, j)
  /\ UNCHANGED <<batches, results, ingress, wk, limiterLeft, fh, cb, reqAges, obs, pace,
                 crashes>>
  /\ UNCHANGED <<http, sd, call>>

\* --------------------------------------------------------------- shutdown
\* SIGTERM or SIGINT reaches the worker: shutdown() sets isShuttingDown and
\* calls worker.close(); the process manager will kill the process
\* kill_timeout after the signal
Shutdown ==
  /\ wk.alive
  /\ ~sd.isShuttingDown
  /\ sd' = [isShuttingDown |-> TRUE, killLeft |-> KILL_TIMEOUT, job |-> wk.job,
            exit |-> "none"]
  /\ UNCHANGED <<jobs, waitq, batches, results, ingress, wk, limiterLeft, fh, cb, reqAges,
                 obs, pace, crashes, http, call>>

\* what dies with the process: the 'failed' handlers that still run and
\* their callbacks
HandlersLost ==
  /\ fh' = [j \in JobIds |->
              IF fh[j].pc \in {"none", "done"} THEN fh[j] ELSE [fh[j] EXCEPT !.pc = "lost"]]
  /\ cb' = [j \in JobIds |->
              IF cb[j].pc \in {"none", "done"} THEN cb[j]
              ELSE [NoCallback EXCEPT !.pc = "lost", !.kind = cb[j].kind]]

\* the first store command of a 'failed' handler (hincrby of a batch job,
\* setex of a single) is issued when the event is emitted, on the connection
\* queue.shutdown() quits later
FirstCommandSent(j) ==
  /\ fh[j].pc # "batch"
  /\ fh[j].pc = "store" => InBatch(j)

\* worker.close() resolves once the processor has settled (it does not wait
\* for the listeners of 'failed'); queue.shutdown() closes the connections
\* and process.exit(0) ends the process
WorkerClosed ==
  /\ wk.alive
  /\ sd.isShuttingDown
  /\ wk.pc = "idle"
  /\ \A j \in JobIds : FirstCommandSent(j)
  /\ wk' = [IdleWorker EXCEPT !.alive = FALSE, !.pc = "dead"]
  /\ sd' = [sd EXCEPT !.exit = "exit", !.killLeft = 0]
  /\ HandlersLost
  /\ UNCHANGED <<jobs, waitq, batches, results, ingress, limiterLeft, reqAges, obs, pace,
                 crashes, http, call>>

\* kill_timeout after the signal the process manager kills a worker that
\* still runs; the lock of its active job runs out after lockLeft
Killed(lockLeft) ==
  /\ wk.alive
  /\ sd.isShuttingDown
  /\ sd.killLeft = 0
  /\ wk' = [IdleWorker EXCEPT !.alive = FALSE, !.pc = "dead"]
  /\ sd' = [sd EXCEPT !.exit = "killed"]
  /\ jobs' = [j \in JobIds |->
                IF j = wk.job THEN [jobs[j] EXCEPT !.left = lockLeft] ELSE jobs[j]]
  /\ HandlersLost
  /\ pace' = [pace EXCEPT !.running = 0]
  /\ UNCHANGED <<waitq, batches, results, ingress, limiterLeft, reqAges, obs, crashes, http, call>>

\* ------------------------------------------------------------------- time
\* the pending timers, as the time left on each
Timers ==
  (IF wk.alive /\ wk.pc \in {"request", "sleep"} THEN {wk.left} ELSE {})
  \cup {cb[j].left : j \in {k \in JobIds : wk.alive /\ cb[k].pc \in {"send", "sleep"}}}
  \cup {jobs[j].left : j \in {k \in JobIds : jobs[k].state = "delayed"}}
  \cup {jobs[j].left : j \in {k \in JobIds : Orphan(k)}}
  \cup (IF limiterLeft > 0 THEN {limiterLeft} ELSE {})
  \cup (IF wk.alive /\ sd.isShuttingDown THEN {sd.killLeft} ELSE {})

SetMin(S) == CHOOSE x \in S : \A y \in S : x <= y

\* a step of the worker, of a handler or of the store is due now
StepDue ==
  \/ wk.alive /\ wk.pc \in {"start", "store", "batch", "callback", "return", "throw"}
  \/ wk.alive /\ \E j \in JobIds : fh[j].pc \in {"batch", "store", "callback"}
  \/ ingress.pc = "addBulk"
  \/ CanClaim
  \/ wk.alive /\ sd.isShuttingDown /\ wk.pc = "idle"
  \/ 0 \in Timers

Older(ages, d) ==
  SelectSeq([i \in 1..Len(ages) |-> ages[i] + d], LAMBDA a : a < MaxWindow)

\* time passes until the next timer is due
AdvanceTime ==
  /\ ~StepDue
  /\ Timers # {}
  /\ LET d == SetMin(Timers) IN
     /\ wk' = IF wk.alive /\ wk.pc \in {"request", "sleep"}
              THEN [wk EXCEPT !.left = @ - d] ELSE wk
     /\ cb' = [j \in JobIds |->
                 IF wk.alive /\ cb[j].pc \in {"send", "sleep"}
                 THEN [cb[j] EXCEPT !.left = @ - d] ELSE cb[j]]
     /\ jobs' = [j \in JobIds |->
                   IF jobs[j].state = "delayed" \/ Orphan(j)
                   THEN [jobs[j] EXCEPT !.left = @ - d] ELSE jobs[j]]
     /\ limiterLeft' = Max(0, limiterLeft - d)
     /\ reqAges' = Older(reqAges, d)
     /\ pace' = [pace EXCEPT
                   !.startAge = IF @ < 0 THEN @ ELSE Min(@ + d, DRIP_INTERVAL_MS + 1),
                   !.longEnded = FALSE]
     /\ sd' = IF wk.alive /\ sd.isShuttingDown THEN [sd EXCEPT !.killLeft = @ - d] ELSE sd
  /\ UNCHANGED <<waitq, batches, results, ingress, fh, obs, crashes>>
  /\ UNCHANGED <<http, call>>

\* ---------------------------------------------------------- specification
\* The environment of one specification: how many jobs callers submit and
\* what the submissions carry, how the downstream API and the callback
\* receiver answer and how long they take, and the random draws of the
\* jitter (Math.random() * 2 - 1, in percent).
Singles(limit, tools, params, urls, prios) ==
  \E t \in tools, p \in params, u \in urls, g \in prios :
    SubmitSingle(limit, t, p, NoRowId, u, g)

Batches(limit, tools, params, urls, prios) ==
  \/ \E t \in tools, n \in 1..limit, u \in urls, g \in prios :
       \E r \in [1..n -> params] : SubmitBatch(limit, t, r, u, g)
  \/ EnqueueBatch

Processing(outs, durs, draws, cbdurs) ==
  \/ Claim
  \/ \E d \in durs : StartProcessing(d)
  \/ \E o \in outs, d \in durs, w \in draws : ClientResponse(o, d, w)
  \/ \E d \in durs : ClientSleepDone(d)
  \/ StoreCompleted
  \/ CountCompleted
  \/ \E d \in cbdurs : CallbackCompleted(d)
  \/ Complete
  \/ Fail
  \/ \E j \in JobIds : Promote(j)
  \/ \E j \in JobIds : CountFailed(j)
  \/ \E j \in JobIds : StoreFailed(j)
  \/ \E j \in JobIds, d \in cbdurs : CallbackFailed(j, d)
  \/ AdvanceTime

Callbacks(outs, durs, draws) ==
  \/ \E j \in JobIds, o \in outs, d \in durs, w \in draws : CallbackResponse(j, o, d, w)
  \/ \E j \in JobIds, d \in durs : CallbackSleepDone(j, d)

Crashes(locks) ==
  \/ \E l \in locks : Crash(l)
  \/ Restart
  \/ \E j \in JobIds : Recover(j)

Shutdowns(locks) ==
  \/ Shutdown
  \/ WorkerClosed
  \/ \E l \in locks : Killed(l)

Status(n) == [status |-> n, code |-> IF n >= 500 THEN "ERR_BAD_RESPONSE" ELSE "ERR_BAD_REQUEST",
              timeoutText |-> FALSE]
ConnReset == [status |-> 0, code |-> "ECONNRESET", timeoutText |-> FALSE]
GoodParams == [p \in {"user"} |-> "v"]

\* The gateway with MaxJobs jobs: single and batch submissions of the known
\* tool, with or without its required parameter and a callback URL.
Next ==
  \/ Singles(MaxJobs, {"get_linkedin_profile", "nope"}, ParamSets, BOOLEAN, {0})
  \/ Batches(MaxJobs, {"get_linkedin_profile", "nope"}, ParamSets, BOOLEAN, {0})
  \/ Processing({Ok200, Status(400), Status(503)}, {4000}, {0}, {1000})
  \/ Callbacks({Ok200, Status(400), Status(500)}, {1000}, {0})

Spec == Init /\ [][Next]_vars

\* The downstream client under every kind of answer and jitter: single
\* submissions without callback URL.
NextRate ==
  \/ Singles(MaxRateJobs, {"get_linkedin_profile"}, ParamSets, {FALSE}, {0})
  \/ Processing({Ok200, Status(400), Status(429), Status(503), ConnReset},
                {500}, {-100, 0, 100}, {1000})

SpecRate == Init /\ [][NextRate]_vars

\* The gateway with a worker that may die and be restarted.
NextCrash ==
  \/ Batches(MaxJobs, {"get_linkedin_profile"}, {GoodParams}, BOOLEAN, {0})
  \/ Processing({Ok200, Status(503)}, {4000}, {0}, {1000})
  \/ Callbacks({Ok200, Status(500)}, {1000}, {0})
  \/ Crashes({LOCK_DURATION})

SpecCrash == Init /\ [][NextCrash]_vars

\* The queue under submissions of different priorities (1 and the default
\* 5): single and batch submissions without callback URL.
NextOrder ==
  \/ Singles(MaxOrderJobs, {"get_linkedin_profile"}, {GoodParams}, {FALSE}, {0, 1})
  \/ Batches(MaxOrderJobs, {"get_linkedin_profile"}, {GoodParams}, {FALSE}, {0})
  \/ Processing({Ok200, Status(503)}, {4000}, {0}, {1000})

SpecOrder == Init /\ [][NextOrder]_vars

\* One batch after another, records with and without the required parameter,
\* no callback URL. The event loop runs every continuation that is ready and
\* every timer that is due: the worker's steps and the pending addBulk are
\* taken if they stay enabled.
ProcessingBatch == Processing({Ok200, Status(503)}, {4000}, {0}, {1000})
NextBatch ==
  \/ Batches(MaxJobs, {"get_linkedin_profile"}, ParamSets, {FALSE}, {0})
  \/ ProcessingBatch

SpecBatch ==
  /\ Init /\ [][NextBatch]_vars
  /\ WF_vars(ProcessingBatch)
  /\ WF_vars(EnqueueBatch)

\* The ingress alone: requests with and without the secret header, to a server
\* with and without WEBHOOK_SECRET; bodies with known, unknown and inherited
\* tool names, no, one, two and MAX_BATCH_SIZE + 1 records, priorities in and
\* out of range, records and singles with and without a row id.
Secrets == {"", "s3cret"}
Headers == {"absent", "s3cret", "wrong"}
ToolNames == {"get_linkedin_profile", "nope", "constructor"}
Priorities == {0, 5, 11}
RowIds == {NoRowId, "r1"}
Records == [{"user", "rowId"} -> {"v"} \cup RowIds]
RecordLists ==
  {<<>>} \cup {<<r>> : r \in {x \in Records : x["user"] = "v"}}
         \cup {<<r, q>> : r \in {x \in Records : x["user"] = "v"},
                          q \in {x \in Records : x["user"] = "v"}}
         \cup {[i \in 1..(MAX_BATCH_SIZE + 1) |-> GoodParams]}

NextIngress ==
  \/ \E s \in Secrets, h \in Headers, r \in BOOLEAN : HttpHealth(s, h, r)
  \/ \E s \in Secrets, h \in Headers : HttpUnrouted("/api/api/health", s, h)
  \/ \E s \in Secrets, h \in Headers, t \in ToolNames, i \in RowIds, g \in Priorities :
       HttpSingle(s, h, MaxIngressJobs, t, GoodParams, i, FALSE, g)
  \/ \E s \in Secrets, h \in Headers, t \in ToolNames, r \in RecordLists, g \in Priorities :
       HttpBatch(s, h, MaxIngressJobs, t, r, FALSE, g)
  \/ EnqueueBatch

SpecIngress == Init /\ [][NextIngress]_vars

\* The crashing worker under fairness: the event loop runs the ready
\* continuations and the due timers, the process manager restarts a dead
\* worker, and the stalled-jobs check of a running worker finds every
\* expired lock.
NextRecover ==
  \/ Batches(MaxRecoverJobs, {"get_linkedin_profile"}, {GoodParams}, {FALSE}, {0})
  \/ ProcessingBatch
  \/ Crashes({LOCK_DURATION})

SpecRecover ==
  /\ Init /\ [][NextRecover]_vars
  /\ WF_vars(ProcessingBatch) /\ WF_vars(EnqueueBatch)
  /\ WF_vars(Restart) /\ WF_vars(\E j \in JobIds : Recover(j))

\* The exported functions under direct calls: validateParams with every
\* value of the parameters, the callback dispatch with and without a
\* callbackUrl and every sequence of answers of the receiver, the client's
\* request with every sequence of answers of the downstream API.
Answers == {[status |-> 200, body |-> "a"], [status |-> 201, body |-> "b"],
            [status |-> 400, body |-> "bad"], [status |-> 503, body |-> "busy"],
            NoAnswer}
NextCalls ==
  \/ \E t \in {"get_linkedin_profile", "get_instagram_user_posts", "nope", "constructor"},
        p \in [{"user", "count"} -> JsValues] : CallValidateParams(t, p)
  \/ \E u \in BOOLEAN, o \in [1..CALLBACK_MAX_RETRIES -> {Ok200, Status(400), Status(500)}] :
       CallSendCompletedCallback(u, o)
  \/ \E u \in BOOLEAN, o \in [1..CALLBACK_MAX_RETRIES -> {Ok200, Status(400), Status(500)}] :
       CallSendFailedCallback(u, o)
  \/ \E o \in [1..CLIENT_MAX_RETRIES -> Answers] :
       CallRequest(TOOL_REGISTRY["get_linkedin_profile"].endpoint, o)

SpecCalls == Init /\ [][NextCalls]_vars

\* The worker under a shutdown signal: a downstream API that answers within
\* seconds or only after the kill timeout, and a callback receiver that may
\* fail.
NextShutdown ==
  \/ Batches(MaxShutdownJobs, {"get_linkedin_profile"}, {GoodParams}, BOOLEAN, {0})
  \/ Processing({Ok200, Status(503)}, {4000, 40000}, {0}, {1000})
  \/ Callbacks({Ok200, Status(500)}, {1000}, {0})
  \/ Shutdowns({LOCK_DURATION})

SpecShutdown == Init /\ [][NextShutdown]_vars

\* The store misbehaving under batches without callback URL: the bulk enqueue
\* of the first MaxStoreErrors submissions may fail, and a batch hash may
\* expire before its jobs have run.
NextStore ==
  \/ Batches(MaxStoreJobs, {"get_linkedin_profile"}, ParamSets, {FALSE}, {0})
  \/ EnqueueBatchFails
  \/ \E b \in 1..Len(batches) : ExpireBatch(b)
  \/ Processing({Ok200, Status(503)}, {4000}, {0}, {1000})

SpecStore == Init /\ [][NextStore]_vars

\* ----------------------------------------------------------------- claims
ActiveJobs == {j \in JobIds : jobs[j].state = "active"}

\* C1: two consecutive executions start at least DRIP_INTERVAL_MS apart, and
\* the later one does not start before the earlier one has finished; after an
\* execution longer than DRIP_INTERVAL_MS one job starts at once and the job
\* after it waits for the interval again.
PaceKept ==
  /\ pace.lastGap = -1 \/ pace.lastGap >= DRIP_INTERVAL_MS
  /\ ~pace.overlap
  /\ pace.running <= 1

\* an execution began the instant a longer-than-D execution ended, it is over,
\* and the other job waits for the limiter although the worker is idle
PaceKeptWitness ==
  /\ pace.afterLong
  /\ WorkerFree /\ waitq # <<>> /\ RateLimited

\* C2: in every window of length W that ends now, at most ceil(W / D) + 1
\* downstream requests were sent, the client's own retries counted.
RequestsWithin(W) == Cardinality({i \in 1..Len(reqAges) : reqAges[i] < W})
RequestRateBound ==
  \A i \in 1..Len(reqAges) :
    LET W == reqAges[i] + 1
    IN  RequestsWithin(W) <= CeilDiv(W, DRIP_INTERVAL_MS) + 1

\* C3: at most one job is active, whatever the submissions, job-level
\* retries, backoff timers and callback deliveries in progress.
SingleFlight == Cardinality(ActiveJobs) <= 1

\* a job is active while another waits, a third party's backoff or not, and
\* the failure callback of the other job is still being delivered
SingleFlightWitness ==
  \E j \in JobIds, k \in JobIds :
    /\ j # k
    /\ jobs[j].state = "active" /\ wk.job = j /\ wk.pc = "request"
    /\ cb[k].pc \in {"send", "sleep"} /\ cb[k].kind = "failed"

\* C4: for every batch completed + failed <= total, also after a worker crash,
\* the recovery of the stalled job and its re-execution.
BatchWithinTotal ==
  \A b \in 1..Len(batches) :
    batches[b].completed + batches[b].failed <= batches[b].total

\* C5: a job that is completed, or failed with its failure handler past the
\* store, has exactly one result record written, and no callback POST of the
\* job was sent before a result record of it was written.
HandlerStored(j) == fh[j].pc \in {"callback", "awaitCallback", "done"}
OneRecordBeforeCallback ==
  \A j \in JobIds :
    /\ obs[j].writes <= 1
    /\ obs[j].cbAfterWrite
    /\ obs[j].cbPosts > 0 => obs[j].writes = 1
    /\ jobs[j].state = "completed" => obs[j].writes = 1
    /\ (jobs[j].state = "failed" /\ HandlerStored(j)) => obs[j].writes = 1
    /\ obs[j].writes = 1 =>
         \E r \in results : r.key = ResultKey(j)

\* one job completed and one failed for good, both with callbacks delivered
OneRecordBeforeCallbackWitness ==
  \E j \in JobIds, k \in JobIds :
    /\ jobs[j].state = "completed" /\ cb[j].pc = "done" /\ obs[j].cbPosts > 0
    /\ jobs[k].state = "failed" /\ fh[k].pc = "done" /\ cb[k].pc = "done"
    /\ obs[k].cbPosts > 0

\* C6: when the delivery of a completed job's callback has failed, the result
\* is success = false with attempts = 3, the job is completed (or about to
\* be: processJob is at its return), its batch's completed counter was
\* incremented once and failed not at all, and the job is not parked for a
\* job-level retry nor handed to the failure handler.
DeliveryFailed(j) ==
  cb[j].pc = "done" /\ cb[j].kind = "completed" /\ ~cb[j].success
CallbackFailureHarmless ==
  \A j \in JobIds :
    DeliveryFailed(j) =>
      /\ cb[j].attempts = CALLBACK_MAX_RETRIES
      /\ \/ jobs[j].state = "completed"
         \/ jobs[j].state = "active" /\ wk.job = j /\ wk.pc = "return"
      /\ obs[j].incCompleted = IF InBatch(j) THEN 1 ELSE 0
      /\ obs[j].incFailed = 0
      /\ obs[j].execs = jobs[j].attemptsMade + 1
      /\ fh[j] = NoHandler
      /\ InBatch(j) => batches[jobs[j].batchId].failed
                         = Cardinality({k \in JobIds : /\ jobs[k].batchId = jobs[j].batchId
                                                       /\ obs[k].incFailed > 0})

\* a job of a batch is completed although all three callback POSTs failed
CallbackFailureHarmlessWitness ==
  \E j \in JobIds :
    /\ DeliveryFailed(j) /\ InBatch(j)
    /\ jobs[j].state = "completed"
    /\ obs[j].cbPosts = CALLBACK_MAX_RETRIES
    /\ batches[jobs[j].batchId].completed >= 1

\* C7: a job whose tool is unknown or whose params miss a required parameter
\* is executed once and never parked for a job-level retry.
Invalid(j) ==
  getTool(jobs[j].tool).kind = "null" \/ validateParams(jobs[j].tool, jobs[j].params) # "valid"
InvalidJobTerminal ==
  \A j \in JobIds :
    Invalid(j) => /\ obs[j].execs <= 1
                  /\ obs[j].retried = 0
                  /\ jobs[j].state \in {"waiting", "active", "failed"}

\* C8: an execution that ends on an HTTP 4xx other than 429 leaves the job
\* failed for good, not parked for a job-level retry.
ClientErrorTerminal ==
  [][(wk.pc = "throw" /\ ClientError4xx(wk.lastError) /\ wk'.pc = "idle")
       => jobs'[wk.job].state = "failed"]_vars

\* C9: within one call of the client, a request after the first is sent only
\* after a retryable failure: a non-retryable failure ends the call.
NoRequestAfterNonRetryable ==
  (wk.pc = "request" /\ wk.attempt > 1) => isRetryableError(wk.lastError)

\* C10: callback attempt n > 1 is sent only if attempt n - 1 ended in a
\* retryable failure.
NoCallbackAfterNonRetryable ==
  \A j \in JobIds :
    (cb[j].pc = "send" /\ cb[j].attempt > 1) => isRetryableCallbackError(cb[j].lastError)

\* C11: a job whose executions all fail, the last one on a retryable error, is
\* executed JOB_ATTEMPTS times and then failed; only then, and once, its
\* failed record (with the upstream error) is stored, its batch's failed
\* counter is incremented (completed never) and its failure callback is
\* dispatched, with status failed and attempts = JOB_ATTEMPTS; a job that
\* waits for a further attempt or runs one shows none of these effects.
Exhausted(j) ==
  jobs[j].state = "failed" /\ fh[j].pc = "done" /\ isRetryableError(fh[j].error)
BeforeOutcome(j) ==
  \/ jobs[j].state \in {"waiting", "delayed"}
  \/ jobs[j].state = "active" /\ wk.job = j /\ wk.pc \in {"start", "request", "sleep", "throw"}
RetryableExhaustion ==
  \A j \in JobIds :
    /\ jobs[j].state = "failed" =>
         /\ jobs[j].attemptsMade = JOB_ATTEMPTS
         /\ obs[j].execs = JOB_ATTEMPTS
    /\ BeforeOutcome(j) =>
         /\ obs[j].writes = 0 /\ obs[j].cbCalls = 0
         /\ obs[j].incFailed = 0 /\ obs[j].incCompleted = 0
    /\ Exhausted(j) =>
         /\ obs[j].writes = 1
         /\ \E r \in results :
              r.key = ResultKey(j) /\ r.status = "failed" /\ r.error = fh[j].error
         /\ obs[j].incFailed = IF InBatch(j) THEN 1 ELSE 0
         /\ obs[j].incCompleted = 0
         /\ obs[j].cbCalls = IF jobs[j].callbackUrl THEN 1 ELSE 0
    /\ (cb[j].pc \in {"send", "sleep"} /\ cb[j].kind = "failed") =>
         /\ cb[j].payload.status = "failed"
         /\ cb[j].payload.attempts = JOB_ATTEMPTS
         /\ cb[j].payload.error = fh[j].error

\* a job of a batch with a callback URL has failed for good on HTTP 503, its
\* failure callback is delivered and the batch counts one failure
RetryableExhaustionWitness ==
  \E j \in JobIds :
    /\ Exhausted(j) /\ InBatch(j) /\ jobs[j].callbackUrl
    /\ fh[j].error.status = 503
    /\ cb[j].pc = "done" /\ cb[j].kind = "failed" /\ cb[j].success
    /\ batches[jobs[j].batchId].failed = 1

\* C12: the client's own retries do not consume the job's attempts: a call
\* fails on a retryable error only after CLIENT_MAX_RETRIES requests, and a
\* job that is running or completed has attemptsMade equal to the number of
\* its earlier, failed executions, however many requests the client sent.
InternalRetriesFree ==
  /\ (wk.pc = "throw" /\ isRetryableError(wk.lastError)) => wk.attempt = CLIENT_MAX_RETRIES
  /\ \A j \in JobIds :
       jobs[j].state \in {"active", "completed"} =>
         /\ jobs[j].attemptsMade = obs[j].execs - 1
         /\ obs[j].retried = jobs[j].attemptsMade

\* the third request of the job's first execution was answered 200 after a
\* 429: processJob is about to return, no attempt is counted, no retry parked
InternalRetriesFreeWitness ==
  /\ wk.pc = "return" /\ wk.attempt = CLIENT_MAX_RETRIES
  /\ wk.lastError.status = 429
  /\ obs[wk.job].execs = 1
  /\ jobs[wk.job].attemptsMade = 0 /\ obs[wk.job].retried = 0

\* C13: a job that starts executing has the smallest priority number of all
\* jobs waiting at that moment: of two waiting jobs the one with the smaller
\* number never starts after the other.
PriorityOrder ==
  [][\A j \in JobIds :
       (jobs[j].state = "waiting" /\ jobs'[j].state = "active") =>
         \A k \in JobIds :
           jobs[k].state = "waiting" => jobs[k].priority >= jobs[j].priority]_vars

\* a job of priority 1 runs although a job of priority 5 that was submitted
\* before it has not run yet and waits
PriorityOrderWitness ==
  \E a \in JobIds, b \in JobIds :
    /\ b < a /\ jobs[a].priority < jobs[b].priority
    /\ jobs[a].state = "active" /\ obs[a].execs = 1
    /\ jobs[b].state = "waiting" /\ obs[b].execs = 0

\* C14: among jobs of equal priority the first executions start in the order
\* of submission (the order of the job ids; within a batch the order of the
\* records): a job has started only if every earlier one of its priority has.
Started(j) == obs[j].execs >= 1
FirstStartsInOrder ==
  \A j \in JobIds, k \in JobIds :
    (k < j /\ jobs[k].priority = jobs[j].priority /\ Started(j)) => Started(k)

\* three records of one batch: the third starts its first execution while the
\* first, which failed once, waits again for its second
FirstStartsInOrderWitness ==
  /\ Len(jobs) = 3
  /\ \A j \in JobIds : jobs[j].batchId = 1
  /\ jobs[3].state = "active" /\ obs[3].execs = 1
  /\ jobs[1].state = "waiting" /\ obs[1].execs = 1
  /\ Started(2)

\* C15: GET /api/health is served whatever the x-webhook-secret header: it is
\* answered by its handler (200, or 503 without Redis), never 401 or 403.
HealthNeedsNoSecret ==
  http.path = "/api/health" => http.status \in {200, 503}

\* C16: a batch submission with no records, more than MAX_BATCH_SIZE records,
\* a priority outside 1..10 or a tool that is no key of the registry is
\* answered 400 (when it passes the secret check) and its handling changes
\* neither the jobs nor the batch records nor the results.
BadBatch(req) ==
  \/ req.records = 0 \/ req.records > MAX_BATCH_SIZE
  \/ req.priority < MIN_PRIORITY \/ req.priority > MAX_PRIORITY
  \/ req.tool \notin listTools
RejectedLeavesStore ==
  [][(/\ http'.n # http.n /\ http'.path = "/api/batch"
      /\ http'.status \notin {401, 403}
      /\ BadBatch(http'.req))
       => (http'.status = 400 /\ UNCHANGED <<jobs, waitq, batches, results>>)]_vars

\* C17: a submission is accepted only if its tool name is a key of the
\* registry: the name is in listTools and getTool returns its entry.
AcceptedToolIsKey ==
  http.status = 202 =>
    /\ http.req.tool \in listTools
    /\ getTool(http.req.tool).kind = "entry"

\* C18: the row ids of the jobs are pairwise distinct, the caller's own row
\* ids and the generated ones alike.
RowIdsDistinct ==
  \A j \in JobIds, k \in JobIds : j # k => jobs[j].rowId # jobs[k].rowId

\* C19: every stored result record has the status completed or failed;
\* completed records have data and no error, failed ones an error and no data.
ResultRecordShape ==
  \A r \in results :
    /\ r.status \in {"completed", "failed"}
    /\ r.status = "completed" => (r.data # "absent" /\ r.error = NoError)
    /\ r.status = "failed" => (r.data = "absent" /\ r.error.status >= 0)

\* C20: the failure of a job stays with that job: every job submitted reaches
\* its own terminal state, whatever became of the others of its batch, and a
\* batch's failed counter counts exactly the jobs of the batch that failed
\* for good and were handled, its completed counter those that completed.
Terminal(j) == jobs[j].state \in {"completed", "failed"}
BatchJobs(b) == {j \in JobIds : jobs[j].batchId = b}
FailureCounted ==
  \A b \in 1..Len(batches) :
    /\ batches[b].failed =
         Cardinality({j \in BatchJobs(b) : jobs[j].state = "failed" /\ fh[j].pc # "batch"})
    /\ batches[b].completed =
         Cardinality({j \in BatchJobs(b) : obs[j].incCompleted = 1})
    /\ \A j \in BatchJobs(b) : obs[j].incCompleted = 1 => ~Invalid(j)
FailureIsolated ==
  /\ [](FailureCounted)
  /\ \A j \in 1..MaxJobs : (j \in JobIds) ~> (j \in JobIds /\ Terminal(j))

\* a batch of two: the record without the required parameter has failed for
\* good, the other one completed after that, and the batch counts one each
FailureIsolatedWitness ==
  /\ Len(jobs) = 2 /\ jobs[1].batchId = 1 /\ jobs[2].batchId = 1
  /\ Invalid(1) /\ jobs[1].state = "failed" /\ fh[1].pc = "done"
  /\ jobs[2].state = "completed" /\ obs[2].execs >= 1
  /\ batches[1] = [total |-> 2, completed |-> 1, failed |-> 1]

\* C21: after a shutdown signal the worker claims no further job; when the
\* worker ends by closing its connections, the job that was executing at the
\* signal has run to the end of its processing (its attempt was parked for a
\* retry, or it is terminal with its result record written, its batch counter
\* incremented and its callback delivered); and the worker never runs past the
\* kill timeout after the signal.
NoClaimAfterSignal ==
  (sd.isShuttingDown /\ wk.alive /\ wk.job # 0) => wk.job = sd.job
Processed(j) ==
  \/ jobs[j].state \in {"delayed", "waiting"}
  \/ /\ Terminal(j)
     /\ obs[j].writes >= 1
     /\ InBatch(j) => obs[j].incCompleted + obs[j].incFailed >= 1
     /\ jobs[j].callbackUrl => cb[j].pc = "done"
ExitWithinGrace ==
  (sd.isShuttingDown /\ wk.alive) => sd.killLeft >= 0
ShutdownDrains ==
  /\ NoClaimAfterSignal
  /\ (sd.exit = "exit" /\ sd.job # 0) => Processed(sd.job)
  /\ ExitWithinGrace

\* C22: a job that is active when the worker dies is not lost: its lock runs
\* out, the job returns to wait, the restarted worker executes it again and
\* it reaches completed or failed.
Stranded(j) == j \in JobIds /\ jobs[j].state = "active" /\ ~wk.alive
Reexecuted(j) == j \in JobIds /\ Terminal(j) /\ jobs[j].stalled = 1 /\ obs[j].execs >= 2
CrashedJobRecovers ==
  \A j \in 1..MaxRecoverJobs : Stranded(j) ~> Reexecuted(j)
CrashedJobRecoversWitness ==
  \E j \in JobIds : Reexecuted(j)

\* C23: under fairness, with the store reachable and a downstream API that
\* answers every request, every enqueued job eventually is completed or
\* failed, and every batch eventually has completed + failed = total and
\* keeps it.
BatchSettled(b) ==
  /\ b \in 1..Len(batches)
  /\ batches[b].completed + batches[b].failed = batches[b].total
EveryJobSettles ==
  /\ \A j \in 1..MaxJobs : (j \in JobIds) ~> [](j \in JobIds /\ Terminal(j))
  /\ \A b \in 1..MaxJobs : (b \in 1..Len(batches)) ~> []BatchSettled(b)
EveryJobSettlesWitness ==
  \E b \in 1..Len(batches) :
    /\ BatchSettled(b)
    /\ batches[b].completed >= 1 /\ batches[b].failed >= 1
    /\ \A j \in BatchJobs(b) : Terminal(j)

\* C24: a job-level re-attempt passes through the drip gate: the n-th failed
\* execution (n < 3) leaves the slot and parks the job delayed for 5 s, then
\* 10 s; the job leaves delayed only to wait and only when that time has run
\* out; and the execution that takes it up starts at least DRIP_INTERVAL_MS
\* after the previous execution start.
FailedAttempt(j) ==
  /\ jobs[j].state = "active"
  /\ jobs'[j].attemptsMade = jobs[j].attemptsMade + 1
  /\ jobs'[j].attemptsMade < JOB_ATTEMPTS
RetryThroughGate ==
  [][\A j \in JobIds :
       /\ FailedAttempt(j) =>
            /\ jobs'[j].state = "delayed"
            /\ jobs'[j].left = (IF jobs'[j].attemptsMade = 1 THEN 5000 ELSE 10000)
            /\ wk'.job # j
       /\ (jobs[j].state = "delayed" /\ jobs'[j].state # "delayed") =>
            /\ jobs'[j].state = "waiting"
            /\ jobs[j].left = 0
       /\ (jobs[j].state # "active" /\ jobs'[j].state = "active") =>
            /\ jobs[j].state = "waiting"
            /\ pace'.lastGap = -1 \/ pace'.lastGap >= DRIP_INTERVAL_MS
            /\ ~pace'.overlap]_vars
RetryThroughGateWitness ==
  \E j \in JobIds :
    /\ jobs[j].state = "active" /\ wk.job = j
    /\ jobs[j].attemptsMade = 2 /\ obs[j].execs = 3
    /\ pace.lastGap >= DRIP_INTERVAL_MS

\* C25: for a job without callbackUrl the callback dispatch sends no HTTP
\* request and returns success = true, skipped = true and attempts = 0, for
\* a completed and for a failed job alike.
NoUrlSkipsCallback ==
  (call.fn \in {"sendCompletedCallback", "sendFailedCallback"} /\ ~call.args[1]) =>
    /\ call.ret.posts = 0
    /\ call.ret.success
    /\ call.ret.skipped
    /\ call.ret.attempts = 0
NoUrlSkipsCallbackWitness ==
  /\ call.fn = "sendFailedCallback" /\ ~call.args[1]
  /\ call.ret.skipped

\* C26: validateParams of a registered tool returns as missing exactly the
\* required names whose value is absent, null or the empty string, in the
\* order of the registry, and valid exactly when nothing is missing; 0 and
\* false count as present.
IndexIn(seq, x) == CHOOSE i \in 1..Len(seq) : seq[i] = x
InSeq(seq, x) == \E i \in 1..Len(seq) : seq[i] = x
ValidateParamsExact ==
  (call.fn = "validateParams" /\ call.args[1] \in listTools) =>
    LET required == TOOL_REGISTRY[call.args[1]].requiredParams
        params == call.args[2]
        missing == call.ret.missing
    IN /\ \A i \in 1..Len(required) :
            InSeq(missing, required[i]) <=> params[required[i]] \in {"absent", "null", ""}
       /\ \A i \in 1..Len(missing) : InSeq(required, missing[i])
       /\ \A i \in 1..Len(missing), k \in 1..Len(missing) :
            i < k => IndexIn(required, missing[i]) < IndexIn(required, missing[k])
       /\ call.ret.valid <=> Len(missing) = 0
       /\ \A i \in 1..Len(missing) : params[missing[i]] \notin {"zero", "false", "v"}
ValidateParamsExactWitness ==
  /\ call.fn = "validateParams" /\ call.args[1] = "get_instagram_user_posts"
  /\ call.args[2]["user"] = "" /\ call.args[2]["count"] = "zero"
  /\ call.ret.missing = <<"user">> /\ ~call.ret.valid

\* C27 as stated: a job moves only waiting -> active, active -> completed,
\* active -> delayed, active -> failed and delayed -> waiting; completed and
\* failed are absorbing: a terminal job is not executed again and, once its
\* outcome has been handled, no result is written, no counter incremented
\* and no callback sent for it.
Step(j, from, to) == jobs[j].state = from /\ jobs'[j].state = to
Handled(j) == jobs[j].state = "completed" \/ fh[j].pc \in {"done", "lost"}
TerminalAbsorbing(j) ==
  Terminal(j) =>
    /\ jobs'[j].state = jobs[j].state
    /\ obs'[j].execs = obs[j].execs
    /\ obs'[j].incCompleted = obs[j].incCompleted
    /\ obs'[j].writes <= obs[j].writes + 1
    /\ obs'[j].incFailed <= obs[j].incFailed + 1
    /\ Handled(j) => (obs'[j] = obs[j] /\ cb'[j] = cb[j] /\ fh'[j] = fh[j])
Effects(j) == <<obs[j].writes, obs[j].incCompleted, obs[j].incFailed, obs[j].cbCalls,
                obs[j].cbPosts>>
Succeeding(j) ==
  jobs[j].state = "active" /\ wk.job = j /\ wk.pc \in {"store", "batch", "callback"}
FinallyFailed(j) ==
  /\ jobs[j].state = "failed" /\ jobs[j].attemptsMade = JOB_ATTEMPTS
  /\ fh[j].pc \in {"batch", "store", "callback"}
Delivering(j) == cb[j].pc \in {"send", "sleep"}
NonFinalFailureSilent ==
  [][\A j \in JobIds :
       /\ FailedAttempt(j) =>
            /\ results' = results /\ batches' = batches /\ cb' = cb
            /\ Effects(j)' = Effects(j)
            /\ fh'[j] = NoHandler
       /\ Effects(j)' # Effects(j) => (Succeeding(j) \/ FinallyFailed(j) \/ Delivering(j))]_vars
NonFinalFailureSilentWitness ==
  \E j \in JobIds :
    /\ jobs[j].state = "delayed" /\ jobs[j].attemptsMade = 2
    /\ InBatch(j) /\ jobs[j].callbackUrl
    /\ Effects(j) = <<0, 0, 0, 0, 0>>
    /\ results = {} /\ batches[jobs[j].batchId].failed = 0

\* C29: attemptsMade of a job never exceeds the 3 attempts of the job
\* options, and without a worker crash a job is executed at most 3 times,
\* whatever the downstream API answers.
AttemptsBounded ==
  \A j \in JobIds :
    /\ jobs[j].attemptsMade <= JOB_ATTEMPTS
    /\ obs[j].execs <= JOB_ATTEMPTS
    /\ obs[j].execs <= jobs[j].attemptsMade + 1
    /\ obs[j].retried <= JOB_ATTEMPTS - 1
AttemptsBoundedWitness ==
  \E j \in JobIds :
    /\ jobs[j].state = "failed" /\ fh[j].pc = "done"
    /\ jobs[j].attemptsMade = JOB_ATTEMPTS
    /\ obs[j].execs = JOB_ATTEMPTS /\ obs[j].retried = JOB_ATTEMPTS - 1

\* C30: one call of the client sends at most 3 requests; it returns the body
\* of the first 2xx answer and sends nothing after it; when no answer is 2xx
\* it fails with an error that carries the endpoint, the HTTP status of the
\* last attempt (none when no response came) and the upstream message of the
\* last attempt.
First2xx(outs) ==
  IF \E i \in 1..CLIENT_MAX_RETRIES : Answer2xx(outs[i])
  THEN CHOOSE i \in 1..CLIENT_MAX_RETRIES :
         Answer2xx(outs[i]) /\ \A k \in 1..(i - 1) : ~Answer2xx(outs[k])
  ELSE 0
ClientCallContract ==
  call.fn = "request" =>
    LET outs == call.args[2]
        first == First2xx(outs)
        last == outs[CLIENT_MAX_RETRIES]
    IN /\ call.ret.sent <= CLIENT_MAX_RETRIES
       /\ first # 0 =>
            /\ call.ret.ok
            /\ call.ret.data = outs[first].body
            /\ call.ret.sent = first
       /\ first = 0 =>
            /\ ~call.ret.ok
            /\ call.ret.error.endpoint = call.args[1]
            /\ call.ret.error.status = last.status
            /\ last.body # "" => call.ret.error.message = last.body
ClientCallContractWitness ==
  /\ call.fn = "request"
  /\ call.args[2][1].status = 503 /\ call.args[2][2].status = 0
  /\ call.args[2][3].status = 400
  /\ ~call.ret.ok /\ call.ret.error.status = 400 /\ call.ret.error.message = "bad"

\* C31: in both retry loops every request after the first of a call is sent
\* after a backoff wait: before attempt n + 1 the loop sleeps a time within
\* the jitter band around min(1000 * 2^(n-1), 30000) ms, 90% to 110% of it
\* in the client and 80% to 120% of it in the callback dispatch; two attempts
\* of one call are never sent back to back.
Backoff(n) == Min(1000 * Pow2(n - 1), 30000)
InBand(wait, n, pct) ==
  /\ 100 * wait >= (100 - pct) * Backoff(n)
  /\ 100 * wait <= (100 + pct) * Backoff(n)
ClientWaitInBand ==
  [][(wk'.pc = "sleep" /\ wk.pc = "request") => InBand(wk'.left, wk.attempt, 10)]_vars
CallbackWaitInBand ==
  [][\A j \in JobIds :
       (cb'[j].pc = "sleep" /\ cb[j].pc = "send") => InBand(cb'[j].left, cb[j].attempt, 20)]_vars
BackoffBeforeRetry ==
  [][/\ (wk.pc = "request" /\ wk'.pc = "sleep") => InBand(wk'.left, wk.attempt, 10)
     /\ (wk.attempt >= 1 /\ wk'.attempt = wk.attempt + 1) => (wk.pc = "sleep" /\ wk.left = 0)
     /\ \A j \in JobIds :
          /\ (cb[j].pc = "send" /\ cb'[j].pc = "sleep") => InBand(cb'[j].left, cb[j].attempt, 20)
          /\ (cb[j].attempt >= 1 /\ cb'[j].attempt = cb[j].attempt + 1) =>
               (cb[j].pc = "sleep" /\ cb[j].left = 0)]_vars

\* C32: getBatchResults(batchId, limit) returns only records of jobs of that
\* batch, never one of another batch or of a single job, and at most limit
\* of them; once every job of the batch is completed or failed it returns
\* one record per job when limit >= total.
AllTerminal(b) ==
  /\ Cardinality(BatchJobs(b)) = batches[b].total
  /\ \A j \in BatchJobs(b) : Terminal(j)
AllHandled(b) ==
  /\ Cardinality(BatchJobs(b)) = batches[b].total
  /\ \A j \in BatchJobs(b) : Terminal(j) /\ Handled(j)
OnlyOwnResults ==
  \A b \in 1..Len(batches), limit \in 0..MaxJobs :
    \A ret \in getBatchResults(b, limit) :
      /\ \A r \in ret : r.key[1] \in BatchJobs(b)
      /\ Cardinality(ret) <= limit
ResultsOnceHandled ==
  \A b \in 1..Len(batches) :
    \A ret \in getBatchResults(b, batches[b].total) :
      AllHandled(b) => \A j \in BatchJobs(b) : \E r \in ret : r.key[1] = j
BatchResultsExact ==
  /\ OnlyOwnResults
  /\ \A b \in 1..Len(batches) :
       \A ret \in getBatchResults(b, batches[b].total) :
         AllTerminal(b) =>
           /\ Cardinality(ret) = batches[b].total
           /\ \A j \in BatchJobs(b) : \E r \in ret : r.key[1] = j


\* ---------------------------------------------------------------- C33
\* the jobs of batch b that settled: completed, or failed for good
SettledJobs(b) ==
  {j \in BatchJobs(b) : jobs[j].state \in {"completed", "failed"}}

\* C33: the batch hash (total = n, completed = 0, failed = 0) is written
\* before any job of the batch is enqueued: every job of a batch finds the hash
\* with its total, a counter is only ever incremented on a written hash, and a
\* status read of a batch with a counted or settled job is found with total n
BatchRecordBeforeJobs ==
  /\ \A j \in JobIds :
       InBatch(j) => /\ jobs[j].batchId \in 1..Len(batches)
                     /\ batches[jobs[j].batchId].total
                          = Cardinality(BatchJobs(jobs[j].batchId))
  /\ \A b \in 1..Len(batches) :
       /\ batches[b].total >= 1 /\ batches[b].completed >= 0 /\ batches[b].failed >= 0
       /\ (SettledJobs(b) # {} \/ batches[b].completed + batches[b].failed > 0) =>
            /\ getBatchStatus(b).found
            /\ getBatchStatus(b).total = Cardinality(BatchJobs(b))

\* a second batch is submitted (hash written, jobs not yet enqueued) while the
\* worker has counted a job of the first
BatchRecordBeforeJobsWitness ==
  /\ ingress.pc = "addBulk" /\ ingress.batchId = 2
  /\ batches[2].total = 1 /\ batches[2].completed = 0 /\ batches[2].failed = 0
  /\ BatchJobs(2) = {}
  /\ batches[1].completed + batches[1].failed = 1


\* ---------------------------------------------------------------- C34
\* C34: at every moment the stored result records of a batch are at least
\* as many as its completed and failed counters together: no counter increment
\* is visible before the result record of its job is written
RecordBeforeCount ==
  \A b \in 1..Len(batches) :
    Cardinality(ResultsOf(b)) >= batches[b].completed + batches[b].failed

\* the success path alone: a completed counter never runs ahead of the stored
\* records of completed jobs
RecordBeforeCompletedCount ==
  \A b \in 1..Len(batches) :
    Cardinality({r \in ResultsOf(b) : r.data = "response"}) >= batches[b].completed


\* ---------------------------------------------------------------- C35
\* C35: a batch hash with total = n exists only if the n jobs of the batch
\* were enqueued: after a bulk enqueue that failed and was answered 500, no
\* hash of that batch remains
NoRecordWithoutJobs ==
  \A b \in 1..Len(batches) :
    (ingress.pc = "none" /\ BatchJobs(b) = {}) => ~getBatchStatus(b).found

\* a hash that is found never states another total than what addBatch wrote
\* for the submission: total = n holds for every enqueued batch
TotalIsJobCount ==
  \A b \in 1..Len(batches) :
    (BatchJobs(b) # {} /\ batches[b].total # Absent) =>
        batches[b].total = Cardinality(BatchJobs(b))


\* ---------------------------------------------------------------- C37
\* C37: a counter increment never creates or resurrects a batch hash:
\* every status that getBatchStatus returns has total, completed, failed,
\* createdAt and tool, also when a job finishes after the hash has expired
StatusHasAllFields ==
  \A b \in 1..Len(batches) :
    LET status == getBatchStatus(b)
    IN status.found => /\ status.total # Absent
                       /\ status.completed # Absent
                       /\ status.failed # Absent
                       /\ status.createdAt
                       /\ status.tool

\* the other half of the sentence: an expired batch stays not found
ExpiredStaysNotFound ==
  [][\A b \in 1..Len(batches) :
       ~getBatchStatus(b).found => ~getBatchStatus(b)'.found]_vars


\* ---------------------------------------------------------------- C36
\* the completed callback of job j is being dispatched: a POST is in flight
\* or sendCallback sleeps before its next attempt
Dispatching(j) == cb[j].kind = "completed" /\ cb[j].pc \in {"send", "sleep"}

\* C36: the whole dispatch of a completed callback (every attempt and
\* every backoff wait) happens while its job is active and held by the worker:
\* no other job is executed meanwhile, no two completed dispatches overlap, and
\* every other job whose completed callback was dispatched has completed
\* before, so the dispatches follow the order of execution
CompletedCallbackInsideJob ==
  \A j \in JobIds :
    Dispatching(j) =>
      /\ jobs[j].state = "active" /\ wk.job = j /\ wk.pc = "awaitCallback"
      /\ \A k \in JobIds \ {j} :
           /\ ~Dispatching(k)
           /\ jobs[k].state # "active"
           /\ (cb[k].kind = "completed" /\ obs[k].cbPosts >= 1) => jobs[k].state = "completed"

\* the dispatch of job 1 is in a backoff wait while another job waits and the
\* limiter would already let it start
CompletedCallbackInsideJobWitness ==
  \E j \in JobIds :
    /\ Dispatching(j) /\ cb[j].pc = "sleep" /\ cb[j].attempt >= 2
    /\ waitq # <<>> /\ limiterLeft = 0


CountedOnce(j) ==
  /\ obs[j].incCompleted + obs[j].incFailed <= 1
  /\ jobs[j].state = "completed" => obs[j].incCompleted = 1
  /\ obs[j].incCompleted = 1 => jobs[j].state \in {"active", "completed"}
  /\ obs[j].incFailed = 1 => jobs[j].state = "failed"
  /\ (jobs[j].state = "failed" /\ Handled(j)) => obs[j].incFailed = 1

\* the counters of batch b are the numbers of its completed and failed jobs
CountersAreOutcomes(b) ==
  /\ batches[b].completed =
       Cardinality({j \in BatchJobs(b) : jobs[j].state = "completed"})
  /\ batches[b].failed =
       Cardinality({j \in BatchJobs(b) : jobs[j].state = "failed"})

\* C39 as stated: each job of a batch increments exactly one of the two
\* counters exactly once, and whenever every job of the batch is terminal the
\* counters are the numbers of completed and of failed jobs
CountersExactWhenTerminal ==
  /\ \A j \in JobIds : InBatch(j) => CountedOnce(j)
  /\ \A b \in 1..Len(batches) : AllTerminal(b) => CountersAreOutcomes(b)

\* C39 amended: the same once every job of the batch is terminal and the
\* 'failed' listener has handled the failed ones
CountersExactOnceHandled ==
  /\ \A j \in JobIds : InBatch(j) => CountedOnce(j)
  /\ \A b \in 1..Len(batches) : AllHandled(b) => CountersAreOutcomes(b)

\* a batch of two, one job completed after a retried attempt and one failed
\* for good after JOB_ATTEMPTS executions, both handled and counted once
CountersExactOnceHandledWitness ==
  \E b \in 1..Len(batches) :
    /\ AllHandled(b) /\ batches[b].total = 2
    /\ batches[b].completed = 1 /\ batches[b].failed = 1
    /\ \E j \in BatchJobs(b) : jobs[j].state = "completed" /\ obs[j].execs >= 2
    /\ \E j \in BatchJobs(b) : jobs[j].state = "failed" /\ obs[j].execs = JOB_ATTEMPTS

====
